---- MODULE Spec2Model ----
(***************************************************************************)
(* Model of the canpoli API: the access-control path (API keys, billing    *)
(* webhooks, rate limiting, usage metering) over the relational store and  *)
(* the ephemeral counter store.                                            *)
(*                                                                         *)
(* Conventions.  Python None is NoneInt for integers and "none" for        *)
(* strings.  A row id of 0 means "no row".  Users, client addresses and    *)
(* key ids are small integers.  A plaintext API key "cpk_live_<token>" is  *)
(* represented by its token, an integer that generate_api_key never        *)
(* repeats.                                                                *)
(***************************************************************************)
EXTENDS Integers, Sequences, FiniteSets, Bags, TLC

VARIABLES
    api_keys,   \* table api_keys: sequence of rows, the row id is the index
    billing,    \* table billing: user -> row (present = FALSE: no row)
    store,      \* the counter store: [data, expiry]
    now,        \* wall clock, seconds
    advances,   \* number of clock advances taken (bounds the clock)
    last,       \* the last operation and what it returned
    revealed,   \* for each plaintext, how many get_api_key calls returned it
    served,     \* (key, period) -> number of responses < 400 served
    first_use,  \* (key, period) -> [at, ttl] of the first counted response
    reqs,       \* in-flight _apply_rate_limit calls (one per task)
    rl_calls,   \* (identity, window) -> number of INCRs issued by the calls
    tx,         \* open database transactions of concurrent rotate requests
    locks,      \* row locks: key id -> session holding it (0: none)
    resp,       \* the last response whose usage recording raised
    votes,        \* table votes: vote number -> row (id 0: no row)
    vote_members, \* table vote_members: set of rows [id, vote_id, member]
    row_seq,      \* the last id the vote_members sequence gave out
    vrun,         \* where the ingest_votes call is: "idle" or "votes"
    vote_log,     \* what the last vote of the list did to the tables
    debates,      \* table debates: <<sitting, language>> -> row (id 0: no row)
    debate_interventions, \* table debate_interventions: [id, debate_id, sequence]
    int_seq,      \* the last id the debate_interventions sequence gave out
    drun,         \* the running ingest_debates call
    debate_log,   \* what the last Hansard fetch did to the tables
    scan_log,     \* the last debates scan: its range and what each sitting gave
    hoc_settings, \* settings.hoc_debates_*, and the last sitting a run may reach
    persisted,    \* the debates tables as last committed
    member_expenditures,        \* table member_expenditures, a bag of rows
    house_officer_expenditures, \* table house_officer_expenditures, a bag of rows
    exp_log,      \* the last expenditure ingest that ran and its upstream data
    urepo,        \* the repository whose upsert the session calls ("none" at first)
    urows,        \* the table of that repository: rows [id, key, fields]
    upsert_log,   \* the arguments of the last upsert call
    ingest_run,   \* the last call of HoCParliamentIngestionService.ingest
    riding_geom,     \* table ridings: riding id -> the points its geom contains
    representatives, \* table representatives: rep id -> [riding_id, is_active]
    lookup_log,      \* the last call of lookup_representative and its answer
    settings,     \* get_settings(): [redis_url, environment] of the process
    redis_client, \* redis_client._redis_client: "none", "InMemoryRedis" or "Redis"
    store_log,    \* the last call on the counter store client and what it gave
    semaphore,    \* self.semaphore: the permits left
    last_lock,    \* self._last_lock: the caller that holds it, 0 for none
    fetch,        \* caller of _fetch_text -> where it is in the call
    fetch_raised, \* some call of _fetch_text has raised IngestionError
    min_interval, \* self.min_interval, in clock ticks
    mono,         \* time.monotonic(), in clock ticks
    last_request, \* self._last_request: host -> the time recorded for it
    throttle_lock, \* self._last_lock as _throttle sees it: the holder, 0 for none
    thr,          \* caller of _throttle -> [pc, host, wake]
    request_starts, \* host -> the times _throttle recorded for it, in order
    representative_roles, \* table representative_roles: rows [representative_id, role_name]
    rrun,         \* the running ingest_roles call: [pc, todo, stats]
    role_log,     \* what the last turn of the roles loop met and did
    parties,      \* table parties: rows [id, name]
    party_standings, \* table party_standings of today: party_name -> row
    standings_log \* the last run of ingest_party_standings

accountVars == <<api_keys, billing, store, now, advances, last, revealed, served,
                 first_use, reqs, rl_calls, tx, locks>>

outageVars == <<resp>>
votesVars == <<votes, vote_members, row_seq, vrun, vote_log>>
debatesVars == <<debates, debate_interventions, int_seq, drun, debate_log, scan_log,
                 hoc_settings, persisted>>
expVars == <<member_expenditures, house_officer_expenditures, exp_log>>
upsertVars == <<urepo, urows, upsert_log>>
ingestVars == <<ingest_run>>
lookupVars == <<riding_geom, representatives, lookup_log>>
clientVars == <<settings, redis_client, store_log>>
fetchVars == <<semaphore, last_lock, fetch, fetch_raised>>
throttleVars == <<min_interval, mono, last_request, throttle_lock, thr, request_starts>>

(* the variables of the later models, which every earlier action leaves alone *)
rolesVars == <<representative_roles, rrun, role_log>>
standingsVars == <<parties, party_standings, standings_log>>
moreVars == <<throttleVars, rolesVars, standingsVars>>

(* the variables the account, billing and rate-limit handlers leave alone *)
auxVars == <<outageVars, votesVars, debatesVars, expVars, upsertVars, ingestVars,
            lookupVars, clientVars, fetchVars, moreVars>>

vars == <<accountVars, auxVars>>

dbVars == <<api_keys, billing>>
usageVars == <<served, first_use>>
rlVars == <<reqs, rl_calls>>
txVars == <<tx, locks>>

-----------------------------------------------------------------------------
(* Bounds of the model *)

NumUsers == 1
MaxKeys == 3
MaxAdvances == 1
MaxCount == 3

Users == 1..NumUsers
NoneInt == 0 - 1
MultipleResultsFound == 0 - 2

-----------------------------------------------------------------------------
(* Finite maps with a growing domain *)

Put(f, k, v) == [x \in (DOMAIN f) \cup {k} |-> IF x = k THEN v ELSE f[x]]
Drop(f, k) == [x \in (DOMAIN f) \ {k} |-> f[x]]
Lookup(f, k, default) == IF k \in DOMAIN f THEN f[k] ELSE default
EmptyMap == [x \in {} |-> 0]

-----------------------------------------------------------------------------
(* InMemoryRedis: the counter store.  s is [data, expiry], t is time.time() *)

EmptyStore == [data |-> EmptyMap, expiry |-> EmptyMap]

(* a cleanup that removes nothing *)
cleanup_never(s, key, t) == s

cleanup(s, key, t) ==
    IF key \in DOMAIN s.expiry /\ s.expiry[key] <= t
    THEN [data |-> Drop(s.data, key), expiry |-> Drop(s.expiry, key)]
    ELSE s

redis_incr(s, key, t) ==
    LET c == cleanup(s, key, t)
        value == Lookup(c.data, key, 0) + 1
    IN  [store |-> [c EXCEPT !.data = Put(c.data, key, value)], value |-> value]

redis_get(s, key, t) ==
    LET c == cleanup(s, key, t)
    IN  [store |-> c, value |-> Lookup(c.data, key, NoneInt)]

redis_set(s, key, value, ex, t) ==
    [data |-> Put(s.data, key, value),
     expiry |-> IF ex # NoneInt THEN Put(s.expiry, key, t + ex) ELSE s.expiry]

redis_expire(s, key, seconds, t) ==
    [s EXCEPT !.expiry = Put(s.expiry, key, t + seconds)]

redis_delete(s, key) ==
    [data |-> Drop(s.data, key), expiry |-> Drop(s.expiry, key)]

(* Key names.  Every key is <<family, kind, n, m>> *)
RateLimitKey(identity, window) == <<"ratelimit", identity[1], identity[2], window>>
UsageKey(api_key_id, period_start_ts) == <<"usage", "key", api_key_id, period_start_ts>>
RevealKey(user_id) == <<"api_key_reveal", "user", user_id, 0>>

-----------------------------------------------------------------------------
(* api_keys.py *)

hash_api_key(plaintext) == [hmac_sha256 |-> plaintext]
KeyPrefix(plaintext) == [lead |-> "cpk_live_", head |-> plaintext]

(* generate_api_key: a fresh token; returns (plaintext, prefix, hash) *)
generate_api_key(keys) ==
    LET plaintext == Len(keys) + 1
    IN  [plaintext |-> plaintext, key_prefix |-> KeyPrefix(plaintext),
         key_hash |-> hash_api_key(plaintext)]

-----------------------------------------------------------------------------
(* rate_limit.is_subscription_active *)

is_subscription_active(status) == status \in {"active", "trialing"}

-----------------------------------------------------------------------------
(* ApiKeyRepository over the api_keys table *)

KeyIds(keys) == DOMAIN keys

get_by_hash(keys, key_hash) ==
    LET hit == {k \in KeyIds(keys) : keys[k].key_hash = key_hash}
    IN  IF hit = {} THEN 0 ELSE CHOOSE k \in hit : TRUE

ActiveKeysOf(keys, user_id) ==
    {k \in KeyIds(keys) : keys[k].user_id = user_id /\ keys[k].active}

(* a lookup that forgets the filter on active: the user's latest key *)
get_latest_for_user(keys, user_id) ==
    LET hit == {k \in KeyIds(keys) : keys[k].user_id = user_id}
    IN  IF hit = {} THEN 0 ELSE CHOOSE k \in hit : \A j \in hit : j <= k

(* scalar_one_or_none: the row, 0 for none, an error for several *)
get_active_for_user(keys, user_id) ==
    LET hit == ActiveKeysOf(keys, user_id)
    IN  IF hit = {} THEN 0
        ELSE IF Cardinality(hit) = 1 THEN CHOOSE k \in hit : TRUE
        ELSE MultipleResultsFound

(* an UPDATE whose WHERE clause matches no row *)
deactivate_none(keys, user_id) == keys

deactivate_for_user(keys, user_id) ==
    [k \in KeyIds(keys) |->
        IF keys[k].user_id = user_id /\ keys[k].active
        THEN [keys[k] EXCEPT !.active = FALSE]
        ELSE keys[k]]

create_api_key(keys, user_id, gen, active) ==
    Append(keys, [user_id |-> user_id, key_prefix |-> gen.key_prefix,
                  key_hash |-> gen.key_hash, active |-> active])

(* api_key.active = value; flush *)
set_key_active(keys, k, value) == [keys EXCEPT ![k].active = value]

-----------------------------------------------------------------------------
(* BillingRepository over the billing table.  The columns                  *)
(* stripe_subscription_id and price_id are written and never read by the   *)
(* code modelled here; the rows leave them out.                            *)

NoBilling ==
    [present |-> FALSE, stripe_customer_id |-> 0, status |-> "none",
     current_period_start |-> NoneInt, current_period_end |-> NoneInt]

(* the customer the billing provider creates for a user *)
StripeCustomer(user_id) == 10 + user_id

get_by_customer_id(bill, customer_id) ==
    LET hit == {u \in Users : bill[u].present /\ bill[u].stripe_customer_id = customer_id}
    IN  IF hit = {} THEN 0 ELSE CHOOSE u \in hit : TRUE

create_billing(bill, user_id, customer_id) ==
    [bill EXCEPT ![user_id] =
        [NoBilling EXCEPT !.present = TRUE, !.stripe_customer_id = customer_id]]

-----------------------------------------------------------------------------
(* The persistent world a handler works on: w = [api_keys, billing, store]. *)
(* A handler returns the world it leaves; an error raised inside a session  *)
(* scope rolls the tables back (database._session_scope).                   *)

World(keys, bill, s) == [api_keys |-> keys, billing |-> bill, store |-> s]

RevealTtl == 3600

(* ApiKeyService.activate_or_create_for_user, with a counter store *)
activate_or_create_for_user(w, user_id, status, t) ==
    LET api_key == get_active_for_user(w.api_keys, user_id)
        active == is_subscription_active(status)
        gen == generate_api_key(w.api_keys)
    IN  IF api_key = MultipleResultsFound
        THEN [world |-> w, error |-> TRUE]
        ELSE IF api_key = 0
        THEN [world |->
                [w EXCEPT !.api_keys = create_api_key(w.api_keys, user_id, gen, active),
                          !.store = redis_set(w.store, RevealKey(user_id),
                                              gen.plaintext, RevealTtl, t)],
              error |-> FALSE]
        ELSE [world |-> [w EXCEPT !.api_keys = set_key_active(w.api_keys, api_key, active)],
              error |-> FALSE]

(* a subscription event that leaves the key as it is *)
set_active_skipped(w, user_id, status) == [world |-> w, error |-> FALSE]

(* ApiKeyService.set_active_for_user_if_exists *)
set_active_for_user_if_exists(w, user_id, status) ==
    LET api_key == get_active_for_user(w.api_keys, user_id)
    IN  IF api_key = MultipleResultsFound
        THEN [world |-> w, error |-> TRUE]
        ELSE IF api_key = 0
        THEN [world |-> w, error |-> FALSE]
        ELSE [world |-> [w EXCEPT !.api_keys =
                            set_key_active(w.api_keys, api_key, is_subscription_active(status))],
              error |-> FALSE]

(* the period fields are overwritten only by a value that is not None *)
OverwritePeriod(row, obj) ==
    [row EXCEPT
        !.current_period_start =
            IF obj.current_period_start # NoneInt THEN obj.current_period_start ELSE @,
        !.current_period_end =
            IF obj.current_period_end # NoneInt THEN obj.current_period_end ELSE @]

(* BillingService.handle_webhook_event, branch checkout.session.completed.  *)
(* ev.subscription is the object Subscription.retrieve returns, id 0: none  *)
handle_checkout_completed(w, ev, t) ==
    LET user_id == IF ev.client_reference_id # 0 THEN ev.client_reference_id
                   ELSE ev.metadata_user_id
        row0 == IF user_id # 0 /\ w.billing[user_id].present THEN w.billing[user_id]
                ELSE [NoBilling EXCEPT !.present = TRUE]
        row1 == [row0 EXCEPT !.stripe_customer_id = ev.customer]
        row2 == IF ev.subscription.id # 0
                THEN OverwritePeriod([row1 EXCEPT !.status = ev.subscription.status],
                                     ev.subscription)
                ELSE row1
        r == activate_or_create_for_user([w EXCEPT !.billing[user_id] = row2],
                                         user_id, row2.status, t)
    IN  IF user_id = 0 THEN [world |-> w, error |-> FALSE]
        ELSE IF r.error THEN [world |-> w, error |-> TRUE]
        ELSE r

(* a subscription event handled as a checkout is: a key is made when the   *)
(* user has no active one                                                  *)
handle_subscription_event_creating(w, ev) ==
    LET user_id == get_by_customer_id(w.billing, ev.customer)
        row == OverwritePeriod([w.billing[user_id] EXCEPT !.status = ev.status], ev)
    IN  IF ev.customer = 0 \/ user_id = 0 THEN [world |-> w, error |-> FALSE]
        ELSE activate_or_create_for_user([w EXCEPT !.billing[user_id] = row],
                                         user_id, row.status, 0)

(* BillingService.handle_webhook_event, branch customer.subscription.updated *)
(* and customer.subscription.deleted                                        *)
handle_subscription_event(w, ev) ==
    LET user_id == get_by_customer_id(w.billing, ev.customer)
        row == OverwritePeriod([w.billing[user_id] EXCEPT !.status = ev.status], ev)
        r == set_active_for_user_if_exists([w EXCEPT !.billing[user_id] = row],
                                           user_id, row.status)
    IN  IF ev.customer = 0 \/ user_id = 0 THEN [world |-> w, error |-> FALSE]
        ELSE IF r.error THEN [world |-> w, error |-> TRUE]
        ELSE r

handle_webhook_event(w, ev, t) ==
    IF ev.type = "checkout.session.completed" THEN handle_checkout_completed(w, ev, t)
    ELSE IF ev.type \in {"customer.subscription.updated", "customer.subscription.deleted"}
    THEN handle_subscription_event(w, ev)
    ELSE [world |-> w, error |-> FALSE]

(* ApiKeyService.rotate_api_key / routers.account.rotate_api_key *)
rotate_api_key(w, user_id) ==
    LET row == w.billing[user_id]
        gen == generate_api_key(w.api_keys)
        keys1 == deactivate_for_user(w.api_keys, user_id)
        keys2 == create_api_key(keys1, user_id, gen, TRUE)
    IN  IF ~row.present \/ ~is_subscription_active(row.status)
        THEN [world |-> w, status |-> 403, api_key |-> NoneInt]
        ELSE [world |-> [w EXCEPT !.api_keys = keys2], status |-> 200,
              api_key |-> gen.plaintext]

(* a reveal that is read and not deleted *)
get_api_key_keeping_reveal(w, user_id, t) ==
    LET api_key == get_active_for_user(w.api_keys, user_id)
        got == redis_get(w.store, RevealKey(user_id), t)
    IN  IF api_key = MultipleResultsFound
        THEN [world |-> w, status |-> 500, api_key |-> NoneInt, key_id |-> 0]
        ELSE IF api_key = 0
        THEN [world |-> w, status |-> 404, api_key |-> NoneInt, key_id |-> 0]
        ELSE [world |-> [w EXCEPT !.store = got.store], status |-> 200,
              api_key |-> got.value, key_id |-> api_key]

(* ApiKeyService.get_api_key / routers.account.get_api_key *)
get_api_key(w, user_id, t) ==
    LET api_key == get_active_for_user(w.api_keys, user_id)
        got == redis_get(w.store, RevealKey(user_id), t)
        plaintext == got.value
        store1 == IF plaintext # NoneInt
                  THEN redis_delete(got.store, RevealKey(user_id))
                  ELSE got.store
    IN  IF api_key = MultipleResultsFound
        THEN [world |-> w, status |-> 500, api_key |-> NoneInt, key_id |-> 0]
        ELSE IF api_key = 0
        THEN [world |-> w, status |-> 404, api_key |-> NoneInt, key_id |-> 0]
        ELSE [world |-> [w EXCEPT !.store = store1], status |-> 200,
              api_key |-> plaintext, key_id |-> api_key]

(* BillingService._ensure_customer, called by create_checkout_session *)
ensure_customer(bill, user_id) ==
    IF ~bill[user_id].present
    THEN create_billing(bill, user_id, StripeCustomer(user_id))
    ELSE IF bill[user_id].stripe_customer_id = 0
    THEN [bill EXCEPT ![user_id].stripe_customer_id = StripeCustomer(user_id)]
    ELSE bill

-----------------------------------------------------------------------------
(* rate_limit.py: the dependency of the data endpoints *)

free_rate_limit_per_minute == 1
paid_rate_limit_per_minute == 2
WindowSeconds == 60

(* The X-API-Key header: absent, or a text made of a token (0: no token)   *)
(* with or without surrounding white space                                 *)
NoHeader == [present |-> FALSE, token |-> 0, space |-> FALSE]
HeaderOf(token, space) == [present |-> TRUE, token |-> token, space |-> space]
Truthy(h) == h.present /\ (h.token # 0 \/ h.space)
Strip(h) == [h EXCEPT !.space = FALSE]

(* the plaintext of the key row k: the one generate_api_key made for it *)
PlaintextOf(k) == k

(* a client address, as _client_ip reads it from the request *)
SomeIp == 1

IpIdentity(ip) == <<"ip", ip>>
KeyIdentity(api_key_id) == <<"key", api_key_id>>

(* _apply_rate_limit: window = int(now.timestamp() // 60) *)
WindowOf(t) == t \div WindowSeconds

(* a comparison that rejects the call that reaches the limit *)
rate_limit_reached(count, limit) == count >= limit

(* _apply_rate_limit: if count > limit: raise HTTPException(429) *)
rate_limit_exceeded(count, limit) == count > limit

(* _apply_rate_limit run without interruption; status 200 stands for       *)
(* returning None                                                          *)
apply_rate_limit(s, identity, limit, t) ==
    LET key == RateLimitKey(identity, WindowOf(t))
        r == redis_incr(s, key, t)
        s1 == IF r.value = 1 THEN redis_expire(r.store, key, WindowSeconds, t)
              ELSE r.store
    IN  [store |-> s1, status |-> IF rate_limit_exceeded(r.value, limit) THEN 429 ELSE 200]

NoState == [api_key_id |-> 0, usage_period_start |-> NoneInt,
            usage_period_end |-> NoneInt]

(* a dependency that treats a rejected key as a request without key *)
rate_limit_dependency_fallback(w, header, ip, t) ==
    LET api_key == IF Truthy(header) /\ Truthy(Strip(header)) THEN Strip(header).token
                   ELSE 0
        record == get_by_hash(w.api_keys, hash_api_key(api_key))
        row == w.billing[w.api_keys[record].user_id]
        paid == apply_rate_limit(w.store, KeyIdentity(record),
                                 paid_rate_limit_per_minute, t)
        free == apply_rate_limit(w.store, IpIdentity(ip),
                                 free_rate_limit_per_minute, t)
        valid == /\ api_key # 0
                 /\ record # 0
                 /\ w.api_keys[record].active
                 /\ row.present
                 /\ is_subscription_active(row.status)
    IN  IF valid
        THEN IF paid.status = 429
             THEN [store |-> paid.store, status |-> 429, state |-> NoState]
             ELSE [store |-> paid.store, status |-> 200,
                   state |-> [api_key_id |-> record,
                              usage_period_start |-> row.current_period_start,
                              usage_period_end |-> row.current_period_end]]
        ELSE [store |-> free.store, status |-> free.status, state |-> NoState]

(* rate_limit_dependency: the store it leaves, the status it answers (200: *)
(* the handler runs) and what it attaches to request.state                 *)
rate_limit_dependency(w, header, ip, t) ==
    LET api_key == IF Truthy(header) /\ Truthy(Strip(header)) THEN Strip(header).token
                   ELSE 0
        record == get_by_hash(w.api_keys, hash_api_key(api_key))
        row == w.billing[w.api_keys[record].user_id]
        paid == apply_rate_limit(w.store, KeyIdentity(record),
                                 paid_rate_limit_per_minute, t)
        free == apply_rate_limit(w.store, IpIdentity(ip),
                                 free_rate_limit_per_minute, t)
    IN  IF api_key # 0
        THEN IF record = 0
             THEN [store |-> w.store, status |-> 401, state |-> NoState]
             ELSE IF ~w.api_keys[record].active
             THEN [store |-> w.store, status |-> 403, state |-> NoState]
             ELSE IF ~row.present \/ ~is_subscription_active(row.status)
             THEN [store |-> w.store, status |-> 403, state |-> NoState]
             ELSE IF paid.status = 429
             THEN [store |-> paid.store, status |-> 429, state |-> NoState]
             ELSE [store |-> paid.store, status |-> 200,
                   state |-> [api_key_id |-> record,
                              usage_period_start |-> row.current_period_start,
                              usage_period_end |-> row.current_period_end]]
        ELSE [store |-> free.store, status |-> free.status, state |-> NoState]

(* increment_usage: ttl = 60 * 60 * 24 * 35, or from the period's end *)
DefaultUsageTtl == 3024000
DayAfter == 86400
MinUsageTtl == 60

usage_ttl(period_end, t) ==
    IF period_end # NoneInt
    THEN (IF period_end - t + DayAfter > MinUsageTtl
          THEN period_end - t + DayAfter ELSE MinUsageTtl)
    ELSE DefaultUsageTtl

(* increment_usage on the request state the dependency left *)
increment_usage(s, state, t) ==
    LET key == UsageKey(state.api_key_id, state.usage_period_start)
        r == redis_incr(s, key, t)
    IN  IF state.api_key_id = 0 THEN s
        ELSE IF state.usage_period_start = NoneInt THEN s
        ELSE IF r.value = 1
        THEN redis_expire(r.store, key, usage_ttl(state.usage_period_end, t), t)
        ELSE r.store

(* get_usage_count: the store it leaves and the count *)
get_usage_count(s, api_key_id, period_start, t) ==
    LET r == redis_get(s, UsageKey(api_key_id, period_start), t)
    IN  [store |-> r.store, value |-> IF r.value = NoneInt THEN 0 ELSE r.value]

(* a hook that counts every response *)
usage_middleware_any_status(s, state, status_code, t) == increment_usage(s, state, t)

(* app.usage_middleware, after the response is made *)
usage_middleware(s, state, status_code, t) ==
    IF status_code < 400 THEN increment_usage(s, state, t) ELSE s

(* increment_usage gets as far as the counter store *)
usage_reaches_store(state) ==
    state.api_key_id # 0 /\ state.usage_period_start # NoneInt

(* app.usage_middleware: the status the client gets.  increment_usage is   *)
(* awaited with no exception handler around it, so when the counter store  *)
(* raises the exception leaves the middleware and the server answers 500   *)
usage_middleware_status(state, status_code, store_raises) ==
    IF status_code < 400 /\ usage_reaches_store(state) /\ store_raises
    THEN 500
    ELSE status_code

-----------------------------------------------------------------------------
(* Webhook events the billing provider sends *)

NumPeriods == 2
PeriodSeconds == 2592000

(* the billing periods a subscription object carries *)
PeriodPairs ==
    {<<i * PeriodSeconds, (i + 1) * PeriodSeconds>> : i \in 0..(NumPeriods - 1)}

Statuses == {"active", "trialing", "canceled"}

NoSubscription ==
    [id |-> 0, status |-> "none",
     current_period_start |-> NoneInt, current_period_end |-> NoneInt]

SubscriptionObjects ==
    {[id |-> 1, status |-> st,
      current_period_start |-> pp[1], current_period_end |-> pp[2]] :
        st \in Statuses, pp \in PeriodPairs}

(* a checkout session is created for a user with that user's customer;    *)
(* the user id travels as client_reference_id and as metadata.user_id     *)
CheckoutEvents ==
    {[type |-> "checkout.session.completed", client_reference_id |-> u,
      metadata_user_id |-> u, customer |-> StripeCustomer(u), subscription |-> sub] :
        u \in Users, sub \in SubscriptionObjects \cup {NoSubscription}}

(* a deleted subscription is reported with the status canceled *)
SubscriptionEvents ==
    {[type |-> "customer.subscription.updated", customer |-> StripeCustomer(u),
      id |-> 1, status |-> st,
      current_period_start |-> pp[1], current_period_end |-> pp[2]] :
        u \in Users, st \in Statuses, pp \in PeriodPairs}
    \cup
    {[type |-> "customer.subscription.deleted", customer |-> StripeCustomer(u),
      id |-> 1, status |-> "canceled",
      current_period_start |-> pp[1], current_period_end |-> pp[2]] :
        u \in Users, pp \in PeriodPairs}

WebhookEvents == CheckoutEvents \cup SubscriptionEvents

-----------------------------------------------------------------------------
(* State *)

-----------------------------------------------------------------------------
(* The votes pipeline: HoCParliamentIngestionService.ingest_votes over the *)
(* tables votes and vote_members, for the configured parliament and        *)
(* session.  A detail page is the text the pipeline hashes and decodes:    *)
(* rev tells two texts with the same member list apart.                    *)
NumVotes == 2
NumMembers == 2
NumRevs == 2
MaxRowId == 3
NumSubjects == 2

VoteNumbers == 1..NumVotes
Members == 1..NumMembers

NoDetail == [present |-> FALSE, rev |-> 0, members |-> {}]

DetailPages ==
    {[present |-> TRUE, rev |-> r, members |-> m] :
        r \in 1..NumRevs, m \in SUBSET Members}

(* hashlib.sha256(text).hexdigest(); NoHash is source_hash = None *)
sha256(text) == [sha256 |-> text]
NoHash == [sha256 |-> NoDetail]

(* _parse_vote_detail: the member rows of the page *)
parse_vote_detail(detail) == detail.members

NoVote == [id |-> 0, subject_en |-> 0, source_hash |-> NoHash]

(* VoteRepository.get_by_vote_number: the row, id 0 for none *)
get_by_vote_number(tbl, vote_number) == tbl[vote_number]

(* VoteRepository.upsert *)
vote_upsert(tbl, vote_number, subject_en, source_hash) ==
    LET existing == get_by_vote_number(tbl, vote_number)
        created == Cardinality({n \in DOMAIN tbl : tbl[n].id # 0}) + 1
    IN  [tbl EXCEPT ![vote_number] =
            [id |-> IF existing.id # 0 THEN existing.id ELSE created,
             subject_en |-> subject_en, source_hash |-> source_hash]]

(* VoteMemberRepository.delete_by_vote_id *)
delete_by_vote_id(rows, vote_id) == {r \in rows : r.vote_id # vote_id}

(* vote_member_repo.create for each member of the list, in its order *)
RECURSIVE create_vote_members(_, _, _, _)
create_vote_members(rows, seq, vote_id, members) ==
    IF members = {} THEN [rows |-> rows, seq |-> seq]
    ELSE LET m == CHOOSE x \in members : \A y \in members : x <= y
         IN  create_vote_members(
                 rows \cup {[id |-> seq + 1, vote_id |-> vote_id, member |-> m]},
                 seq + 1, vote_id, members \ {m})

VotesDb(tbl, rows, seq) == [votes |-> tbl, vote_members |-> rows, row_seq |-> seq]

(* ingest_votes: if members: delete_by_vote_id, then create each *)
replace_vote_members(db, vote_id, members) ==
    LET made == create_vote_members(delete_by_vote_id(db.vote_members, vote_id),
                                    db.row_seq, vote_id, members)
    IN  IF members # {}
        THEN [db EXCEPT !.vote_members = made.rows, !.row_seq = made.seq]
        ELSE db

(* a test that never skips *)
vote_never_unchanged(existing, source_hash) == FALSE

(* the hash test that lets a vote be skipped *)
vote_unchanged(existing, source_hash) ==
    existing.id # 0 /\ source_hash # NoHash /\ existing.source_hash = source_hash

(* ingest_votes: the body of the loop for one vote of the list.  item is   *)
(* [vote_number, subject_en, detail, fetch_fails]; outcome "error" is the  *)
(* exception the loop catches and counts                                   *)
ingest_vote(db, item) ==
    LET source_hash == IF item.detail.present THEN sha256(item.detail) ELSE NoHash
        existing == get_by_vote_number(db.votes, item.vote_number)
        members == IF item.detail.present THEN parse_vote_detail(item.detail) ELSE {}
        tbl == vote_upsert(db.votes, item.vote_number, item.subject_en, source_hash)
        stored == tbl[item.vote_number]
    IN  IF item.detail.present /\ item.fetch_fails
        THEN [db |-> db, outcome |-> "error", members |-> 0]
        ELSE IF vote_unchanged(existing, source_hash)
        THEN [db |-> db, outcome |-> "skipped", members |-> 0]
        ELSE [db |-> replace_vote_members([db EXCEPT !.votes = tbl], stored.id, members),
              outcome |-> "stored", members |-> Cardinality(members)]

(* the rows a list page can hold: a vote with no detail link, with a link  *)
(* whose page is fetched, or with a link whose fetch raises                *)
UnfetchedPage == [present |-> TRUE, rev |-> 0, members |-> {}]

VoteItems ==
    {[vote_number |-> n, subject_en |-> sub, detail |-> d, fetch_fails |-> FALSE] :
        n \in VoteNumbers, sub \in 1..NumSubjects, d \in DetailPages \cup {NoDetail}}
    \cup
    {[vote_number |-> n, subject_en |-> sub, detail |-> UnfetchedPage,
      fetch_fails |-> TRUE] : n \in VoteNumbers, sub \in 1..NumSubjects}

NoVoteLog == [vote_number |-> 0, outcome |-> "none", hashed |-> FALSE, decoded |-> {}]

InitVotes ==
    /\ votes = [n \in VoteNumbers |-> NoVote]
    /\ vote_members = {}
    /\ row_seq = 0
    /\ vrun = "idle"
    /\ vote_log = NoVoteLog

(* ingest_votes up to the session: the list page is fetched and read; a    *)
(* page without the votes table raises before anything is written          *)
VotesBegin(table_found) ==
    /\ vrun = "idle"
    /\ vrun' = IF table_found THEN "votes" ELSE "idle"
    /\ vote_log' = NoVoteLog
    /\ UNCHANGED <<accountVars, outageVars, debatesVars, expVars, upsertVars, ingestVars, lookupVars, clientVars, votes, vote_members, row_seq,
                   fetchVars,
                   moreVars>>

(* the next vote of the list *)
VoteItem(item) ==
    LET r == ingest_vote(VotesDb(votes, vote_members, row_seq), item)
    IN  /\ vrun = "votes"
        /\ item.fetch_fails => item.detail.present
        /\ r.db.row_seq <= MaxRowId
        /\ votes' = r.db.votes
        /\ vote_members' = r.db.vote_members
        /\ row_seq' = r.db.row_seq
        /\ vote_log' = [vote_number |-> item.vote_number, outcome |-> r.outcome,
                        hashed |-> item.detail.present /\ ~item.fetch_fails,
                        decoded |-> IF item.detail.present
                                    THEN parse_vote_detail(item.detail) ELSE {}]
        /\ UNCHANGED <<accountVars, outageVars, debatesVars, expVars, upsertVars, ingestVars, lookupVars, clientVars, vrun,
                   fetchVars,
                   moreVars>>

(* the list is done: the session commits *)
VotesEnd ==
    /\ vrun = "votes"
    /\ vrun' = "idle"
    /\ UNCHANGED <<accountVars, outageVars, debatesVars, expVars, upsertVars, ingestVars, lookupVars, clientVars, votes, vote_members, row_seq, vote_log,
                   fetchVars,
                   moreVars>>

-----------------------------------------------------------------------------
(* The debates pipeline: HoCParliamentIngestionService.ingest_debates over *)
(* the tables debates and debate_interventions.  The settings are scaled   *)
(* down; the language list names English twice, which is how one run meets *)
(* a debate it has stored already.  A process runs with the settings of    *)
(* ScanSettings, or with those of ShortScan where the debates pipeline is  *)
(* run next to another one.                                                *)
hoc_debates_max_sitting == 3
hoc_debates_lookahead == 1
hoc_debates_max_missing == 2
hoc_debate_languages == <<"en", "EN">>
MaxSitting == 5
NumInterventions == 2
NumSpeakers == 2

ScanSettings ==
    [max_sitting |-> hoc_debates_max_sitting, lookahead |-> hoc_debates_lookahead,
     max_missing |-> hoc_debates_max_missing, cap |-> MaxSitting]
ShortScan == [max_sitting |-> 1, lookahead |-> 1, max_missing |-> 1, cap |-> 2]

(* str.lower on the configured language tags *)
Lower(lang) == IF lang = "EN" THEN "en" ELSE IF lang = "FR" THEN "fr" ELSE lang

DebateKeys == (1..MaxSitting) \X {"en", "fr"}

(* a Hansard file: its interventions, by speaker, in document order *)
Speakers == 1..NumSpeakers
InterventionLists ==
    UNION {[1..n -> Speakers] : n \in 0..NumInterventions}

NoHansard == [rev |-> 0, interventions |-> <<>>]
HansardPages == {[rev |-> 1, interventions |-> s] : s \in InterventionLists}

NoDebate == [id |-> 0, source_hash |-> sha256(NoHansard)]

(* _parse_hansard_xml: the debate fields and the interventions of the text *)
parse_hansard_xml(xml_text, lang, sitting) ==
    [debate_data |-> [language |-> lang, sitting |-> sitting,
                      source_hash |-> sha256(xml_text)],
     interventions |-> xml_text.interventions]

(* DebateRepository.get_by_parl_session_sitting_lang *)
get_by_parl_session_sitting_lang(tbl, sitting, language) == tbl[<<sitting, language>>]

(* DebateRepository.upsert *)
debate_upsert(tbl, sitting, language, source_hash) ==
    LET existing == tbl[<<sitting, language>>]
        created == Cardinality({k \in DOMAIN tbl : tbl[k].id # 0}) + 1
    IN  [tbl EXCEPT ![<<sitting, language>>] =
            [id |-> IF existing.id # 0 THEN existing.id ELSE created,
             source_hash |-> source_hash]]

(* a delete that removes no row *)
delete_no_intervention(rows, debate_id) == rows

(* DebateInterventionRepository.delete_by_debate_id *)
delete_by_debate_id(rows, debate_id) == {r \in rows : r.debate_id # debate_id}

(* intervention_repo.create for idx, item in enumerate(interventions, 1) *)
create_interventions(rows, seq, debate_id, interventions) ==
    [rows |-> rows \cup {[id |-> seq + idx, debate_id |-> debate_id, sequence |-> idx,
                           speaker_name |-> interventions[idx]] :
                            idx \in 1..Len(interventions)},
     seq |-> seq + Len(interventions)]

(* a scope that commits whatever happened in it *)
session_scope_commits_always(committed, written, raised) == written

(* database._session_scope on leaving the block: commit after a normal     *)
(* return, rollback after an exception                                     *)
session_scope(committed, written, raised) == IF raised THEN committed ELSE written

DebateTables(tbl, rows) == [debates |-> tbl, debate_interventions |-> rows]

DebatesDb(tbl, rows, seq) ==
    [debates |-> tbl, debate_interventions |-> rows, int_seq |-> seq]

(* the hash test that lets a debate be skipped *)
debate_unchanged(existing, source_hash) ==
    existing.id # 0 /\ existing.source_hash = source_hash

(* ingest_debates: the body of the inner loop after a fetch that succeeded *)
ingest_debate(db, sitting, lang, xml_text) ==
    LET parsed == parse_hansard_xml(xml_text, Lower(lang), sitting)
        language == parsed.debate_data.language
        source_hash == parsed.debate_data.source_hash
        existing == get_by_parl_session_sitting_lang(db.debates, sitting, language)
        tbl == debate_upsert(db.debates, sitting, language, source_hash)
        stored == tbl[<<sitting, language>>]
        made == create_interventions(
                    delete_by_debate_id(db.debate_interventions, stored.id),
                    db.int_seq, stored.id, parsed.interventions)
    IN  IF debate_unchanged(existing, source_hash)
        THEN [db |-> db, outcome |-> "skipped"]
        ELSE [db |-> DebatesDb(tbl, made.rows, made.seq), outcome |-> "stored"]

(* a query that finds no stored sitting *)
max_sitting_none(tbl) == 0

(* select max(sitting): 0 stands for None *)
max_sitting(tbl) ==
    LET stored == {k[1] : k \in {x \in DOMAIN tbl : tbl[x].id # 0}}
    IN  IF stored = {} THEN 0 ELSE CHOOSE m \in stored : \A n \in stored : n <= m

IdleDebates == [pc |-> "idle", sitting |-> 0, lang |-> 0, end |-> 0, missing |-> 0,
                found_any |-> FALSE]
NoDebateLog == [sitting |-> 0, language |-> "none", outcome |-> "none"]

(* of a scan: the max stored sitting it read, its range, whether some      *)
(* language of each sitting it went through was fetched, the missing count *)
(* after the last of them, and the sittings in the order of the fetches    *)
NoScan == [max_stored |-> 0, start |-> 0, end |-> 0, found |-> <<>>, missing |-> 0,
           fetched |-> <<>>, raised |-> FALSE]

InitDebatesWith(cfg) ==
    /\ hoc_settings = cfg
    /\ debates = [k \in DebateKeys |-> NoDebate]
    /\ debate_interventions = {}
    /\ int_seq = 0
    /\ drun = IdleDebates
    /\ debate_log = NoDebateLog
    /\ scan_log = NoScan
    /\ persisted = DebateTables(debates, debate_interventions)

InitDebates == InitDebatesWith(ShortScan)

(* ingest_debates up to the loops: the range of sittings to look at *)
DebatesBegin ==
    LET m == max_sitting(debates)
        start == IF m # 0 THEN m + 1 ELSE 1
        end == IF m # 0 THEN m + hoc_settings.lookahead ELSE hoc_settings.max_sitting
    IN  /\ drun.pc = "idle"
        /\ end <= hoc_settings.cap
        /\ drun' = [pc |-> "fetch", sitting |-> start, lang |-> 1, end |-> end,
                    missing |-> 0, found_any |-> FALSE]
        /\ debate_log' = NoDebateLog
        /\ scan_log' = [NoScan EXCEPT !.max_stored = m, !.start = start, !.end = end]
        /\ UNCHANGED <<accountVars, outageVars, votesVars, expVars, upsertVars, ingestVars, lookupVars, clientVars,
                       debates, debate_interventions, int_seq, hoc_settings, persisted,
                   fetchVars,
                   moreVars>>

(* the loop control after one language of one sitting: the next language,  *)
(* or the missing count and the next sitting, or the end of the run, where *)
(* the session commits                                                     *)
(* a missing count that no fetched sitting resets *)
missing_never_reset(count, found_any) == IF found_any THEN count ELSE count + 1

(* if not found_any: missing += 1 ... else: missing = 0 *)
missing_after(count, found_any) == IF found_any THEN 0 ELSE count + 1

debates_advance(run, found_any) ==
    LET missing == missing_after(run.missing, found_any)
    IN  IF run.lang < Len(hoc_debate_languages)
        THEN [run EXCEPT !.lang = @ + 1, !.found_any = found_any]
        ELSE IF (~found_any /\ missing >= hoc_settings.max_missing)
                \/ run.sitting + 1 > run.end
        THEN IdleDebates
        ELSE [run EXCEPT !.sitting = @ + 1, !.lang = 1, !.missing = missing,
                         !.found_any = FALSE]

(* one turn of the inner loop: the fetch raises IngestionError (fetched is *)
(* FALSE) or gives the text of the Hansard file                            *)
DebateFetch(fetched, xml_text) ==
    LET lang == hoc_debate_languages[drun.lang]
        r == ingest_debate(DebatesDb(debates, debate_interventions, int_seq),
                           drun.sitting, lang, xml_text)
    IN  /\ drun.pc = "fetch"
        /\ fetched => r.db.int_seq <= MaxRowId
        /\ debates' = IF fetched THEN r.db.debates ELSE debates
        /\ debate_interventions' =
               IF fetched THEN r.db.debate_interventions ELSE debate_interventions
        /\ int_seq' = IF fetched THEN r.db.int_seq ELSE int_seq
        /\ drun' = debates_advance(drun, drun.found_any \/ fetched)
        /\ debate_log' = [sitting |-> drun.sitting, language |-> Lower(lang),
                          outcome |-> IF fetched THEN r.outcome ELSE "missing"]
        /\ scan_log' =
               LET found_any == drun.found_any \/ fetched
                   tried == [scan_log EXCEPT !.fetched = Append(@, drun.sitting)]
               IN  IF drun.lang < Len(hoc_debate_languages) THEN tried
                   ELSE [tried EXCEPT
                            !.found = Append(@, found_any),
                            !.missing = missing_after(drun.missing, found_any)]
        /\ persisted' =
               IF drun'.pc = "idle"
               THEN session_scope(persisted,
                                  DebateTables(debates', debate_interventions'), FALSE)
               ELSE persisted
        /\ UNCHANGED hoc_settings
        /\ UNCHANGED <<accountVars, outageVars, votesVars, expVars, upsertVars, ingestVars, lookupVars, clientVars,
                   fetchVars,
                   moreVars>>

(* one turn of the inner loop in which an exception leaves the session     *)
(* scope: _parse_hansard_xml raises IngestionError on a text that is not   *)
(* XML (only the fetch is inside try/except), or a statement fails         *)
DebateRaises ==
    LET left == session_scope(persisted,
                              DebateTables(debates, debate_interventions), TRUE)
    IN  /\ drun.pc = "fetch"
        /\ debates' = left.debates
        /\ debate_interventions' = left.debate_interventions
        /\ persisted' = left
        /\ drun' = IdleDebates
        /\ debate_log' = [sitting |-> drun.sitting,
                          language |-> Lower(hoc_debate_languages[drun.lang]),
                          outcome |-> "raised"]
        /\ scan_log' = [scan_log EXCEPT !.fetched = Append(@, drun.sitting),
                                        !.raised = TRUE]
        /\ UNCHANGED <<int_seq, hoc_settings>>
        /\ UNCHANGED <<accountVars, outageVars, votesVars, expVars, upsertVars,
                       ingestVars, lookupVars, clientVars, fetchVars, moreVars>>

-----------------------------------------------------------------------------
(* The expenditures pipelines: ingest_member_expenditures and              *)
(* ingest_house_officer_expenditures.  The tables have no natural key, so  *)
(* they are bags: equal rows count as many times as they were inserted.    *)
(* Upstream data is the period the text gives, each date NoneInt when      *)
(* _parse_date cannot read it, and the names of the data rows.             *)
NumNames == 1
NumDates == 1
MaxExpRows == 10
MaxFiles == 2

MemberCategories == {"Salaries", "Travel", "Hospitality", "Contracts"}
OfficerCategories ==
    {"Employees' Salaries", "Service Contracts", "Travel", "Hospitality", "Office"}

ExpDates == {NoneInt} \cup (1..NumDates)

(* the disclosure page and its CSV, or one house-officer CSV *)
ExpFiles ==
    {[period_start |-> a, period_end |-> b, names |-> n] :
        a \in ExpDates, b \in ExpDates, n \in SUBSET (1..NumNames)}

(* a guard that never lets the delete run *)
period_never_known(file) == FALSE

(* if period_start and period_end *)
period_known(file) == file.period_start # NoneInt /\ file.period_end # NoneInt

(* delete(repo.model).where(period_start == ..., period_end == ...) *)
delete_period(tbl, period_start, period_end) ==
    LET kept == {r \in DOMAIN tbl :
                    ~(r.period_start = period_start /\ r.period_end = period_end)}
    IN  [r \in kept |-> tbl[r]]

(* repo.create for every category of every data row *)
create_expenditures(tbl, file, categories) ==
    tbl (+) SetToBag({[name |-> n, category |-> c,
                       period_start |-> file.period_start,
                       period_end |-> file.period_end] :
                         n \in file.names, c \in categories})

(* the delete of the period, when it is known, and the inserts of one file *)
replace_period(tbl, file, categories) ==
    create_expenditures(
        IF period_known(file)
        THEN delete_period(tbl, file.period_start, file.period_end)
        ELSE tbl,
        file, categories)

(* ingest_house_officer_expenditures: the loop over the CSV links *)
RECURSIVE ingest_officer_files(_, _)
ingest_officer_files(tbl, files) ==
    IF files = <<>> THEN tbl
    ELSE ingest_officer_files(replace_period(tbl, Head(files), OfficerCategories),
                              Tail(files))

(* the CSV files of one run, in link order; a file of fewer than three    *)
(* lines is passed over by the loop and is left out of the list           *)
OfficerFileLists == UNION {[1..k -> ExpFiles] : k \in 1..MaxFiles}

NoExpLog == [ingest |-> "none", files |-> <<>>, again |-> FALSE]

InitExpenditures ==
    /\ member_expenditures = EmptyBag
    /\ house_officer_expenditures = EmptyBag
    /\ exp_log = NoExpLog

(* ingest_member_expenditures with both fetches answered *)
IngestMemberExpenditures(file) ==
    /\ member_expenditures' = replace_period(member_expenditures, file, MemberCategories)
    /\ BagCardinality(member_expenditures') <= MaxExpRows
    /\ exp_log' = [ingest |-> "members", files |-> <<file>>,
                   again |-> exp_log.ingest = "members" /\ exp_log.files = <<file>>]
    /\ UNCHANGED <<accountVars, outageVars, votesVars, debatesVars, upsertVars, ingestVars, lookupVars, clientVars,
                   house_officer_expenditures,
                   fetchVars,
                   moreVars>>

(* ingest_house_officer_expenditures with every fetch answered *)
IngestHouseOfficerExpenditures(files) ==
    /\ house_officer_expenditures' =
           ingest_officer_files(house_officer_expenditures, files)
    /\ BagCardinality(house_officer_expenditures') <= MaxExpRows
    /\ exp_log' = [ingest |-> "house_officers", files |-> files,
                   again |-> exp_log.ingest = "house_officers" /\ exp_log.files = files]
    /\ UNCHANGED <<accountVars, outageVars, votesVars, debatesVars, upsertVars, ingestVars, lookupVars, clientVars,
                   member_expenditures,
                   fetchVars,
                   moreVars>>

(* either ingest with a fetch that raises or a page without a CSV link:    *)
(* the exception leaves the session scope, which rolls back                *)
IngestExpendituresRaises ==
    /\ exp_log' = NoExpLog
    /\ UNCHANGED <<accountVars, outageVars, votesVars, debatesVars, upsertVars, ingestVars, lookupVars, clientVars,
                   member_expenditures, house_officer_expenditures,
                   fetchVars,
                   moreVars>>

-----------------------------------------------------------------------------
(* The repository upserts.  Every one of them selects by the natural key   *)
(* with scalar_one_or_none, sets the keyword arguments on the row found or *)
(* adds a new row; none of the tables has a unique constraint on the key,  *)
(* so a table is a set of rows with ids.  A None component of a key is     *)
(* NoneInt: the comparison column == None selects the rows where it is     *)
(* NULL.                                                                   *)
NumKeys == 2
Repositories == {"Representative", "Vote", "Debate", "Bill", "Petition", "PartyStanding"}

KeyParts == {NoneInt} \cup (1..(NumKeys - 1))

(* the natural keys: hoc_id; (vote_number, parliament, session);           *)
(* (parliament, session, sitting, language); (bill_number, parliament,     *)
(* session); petition_number; (party_name, parliament, session, as_of_date) *)
NaturalKeys(repo) ==
    CASE repo = "Representative" -> {<<hoc_id>> : hoc_id \in 1..NumKeys}
      [] repo = "Vote" -> {<<1, parliament, 1>> : parliament \in KeyParts}
      [] repo = "Debate" -> {<<1, 1, sitting, 1>> : sitting \in KeyParts}
      [] repo = "Bill" -> {<<1, 1, session>> : session \in KeyParts}
      [] repo = "Petition" -> {<<petition_number>> : petition_number \in 1..NumKeys}
      [] repo = "PartyStanding" -> {<<1, 1, 1, as_of_date>> : as_of_date \in KeyParts}

(* an upsert that adds a row whatever the table holds *)
upsert_always_adds(rows, key, kwargs) ==
    [rows |-> rows \cup {[id |-> Cardinality(rows) + 1, key |-> key, fields |-> kwargs]},
     raised |-> FALSE]

(* upsert: scalar_one_or_none raises when the key selects several rows *)
upsert(rows, key, kwargs) ==
    LET found == {r \in rows : r.key = key}
    IN  IF Cardinality(found) > 1
        THEN [rows |-> rows, raised |-> TRUE]
        ELSE IF found # {}
        THEN [rows |-> (rows \ found) \cup {[r EXCEPT !.fields = kwargs] : r \in found},
              raised |-> FALSE]
        ELSE [rows |-> rows \cup {[id |-> Cardinality(rows) + 1, key |-> key,
                                   fields |-> kwargs]},
              raised |-> FALSE]

NoUpsertLog == [key |-> <<>>, kwargs |-> 0, raised |-> FALSE, again |-> FALSE]

InitUpserts ==
    /\ urepo = "none"
    /\ urows = {}
    /\ upsert_log = NoUpsertLog

(* one call of a repository's upsert in the session *)
Upsert(repo, key, kwargs) ==
    LET r == upsert(urows, key, kwargs)
    IN  /\ urepo \in {"none", repo}
        /\ Cardinality(r.rows) <= MaxRowId
        /\ urepo' = repo
        /\ urows' = r.rows
        /\ upsert_log' = [key |-> key, kwargs |-> kwargs, raised |-> r.raised,
                          again |-> upsert_log.key = key /\ upsert_log.kwargs = kwargs]
        /\ UNCHANGED <<accountVars, outageVars, votesVars, debatesVars, expVars, ingestVars,
                       lookupVars, clientVars,
                   fetchVars,
                   moreVars>>

-----------------------------------------------------------------------------
(* The orchestrator: HoCParliamentIngestionService.ingest.  A pipeline is  *)
(* seen from outside: it returns its stats or it raises.                   *)
Pipelines ==
    <<"party_standings", "roles", "votes", "petitions", "debates", "expenditures",
      "bills">>

PipelineNames == {Pipelines[i] : i \in DOMAIN Pipelines}

(* ingest_expenditures catches what its two ingests raise and counts it in *)
(* its stats; the other pipelines let the exception out                    *)
CatchesItsOwn == {"expenditures"}

(* the body of the try block from pipeline i on: stats is the set of       *)
(* pipelines with an entry, ran the set of pipelines called                *)
RECURSIVE ingest_from(_, _, _, _, _)
ingest_from(i, enabled, raising, stats, ran) ==
    IF i > Len(Pipelines)
    THEN [stats |-> stats, ran |-> ran, raised |-> FALSE]
    ELSE LET P == Pipelines[i]
         IN  IF P \notin enabled
             THEN ingest_from(i + 1, enabled, raising, stats, ran)
             ELSE IF P \in raising /\ P \notin CatchesItsOwn
             THEN [stats |-> stats, ran |-> ran \cup {P}, raised |-> TRUE]
             ELSE ingest_from(i + 1, enabled, raising, stats \cup {P}, ran \cup {P})

(* ingest: try: ... return stats  finally: await self.close() *)
ingest(enabled, raising) ==
    LET r == ingest_from(1, enabled, raising, {}, {})
    IN  [enabled |-> enabled, raising |-> raising, stats |-> r.stats, ran |-> r.ran,
         raised |-> r.raised, closed |-> TRUE]

NoIngest == [enabled |-> {}, raising |-> {}, stats |-> {}, ran |-> {},
             raised |-> FALSE, closed |-> FALSE]

(* one call of ingest: enabled is the hoc_enable_* settings, raising the   *)
(* enabled pipelines that fail this time                                   *)
Ingest(enabled, raising) ==
    /\ raising \subseteq enabled
    /\ ingest_run' = ingest(enabled, raising)
    /\ UNCHANGED <<accountVars, outageVars, votesVars, debatesVars, expVars, upsertVars,
                   lookupVars, clientVars,
                   fetchVars,
                   moreVars>>

-----------------------------------------------------------------------------
(* GET /v1/representatives/lookup.  Coordinates are whole degrees; a       *)
(* riding's geom is the set of points it contains (empty for no geom).     *)
NumRidings == 2
NumReps == 2

NoCoord == 0 - 1000
Lats == {45, 91}
Lngs == {0 - 75, 0 - 76, 0 - 181}
Points == {<<lat, lng>> : lat \in {45}, lng \in {0 - 75, 0 - 76}}

NoPostalCode == [given |-> FALSE, text |-> ""]
PostalCodes == {NoPostalCode, [given |-> TRUE, text |-> ""],
                [given |-> TRUE, text |-> "K1A0A6"]}

NoRep == [riding_id |-> 0, is_active |-> FALSE]

(* Query(ge=-90, le=90) and Query(ge=-180, le=180) *)
query_valid(lat, lng) ==
    /\ lat # NoCoord => (0 - 90 <= lat /\ lat <= 90)
    /\ lng # NoCoord => (0 - 180 <= lng /\ lng <= 180)

(* RidingRepository.get_by_point: the ridings whose geom contains the point *)
get_by_point(geom, lat, lng) == {r \in DOMAIN geom : <<lat, lng>> \in geom[r]}

(* RepresentativeRepository.get_by_riding_id: the active ones of the riding *)
get_by_riding_id(reps, riding_id) ==
    {i \in DOMAIN reps : reps[i].riding_id = riding_id /\ reps[i].is_active}

(* a lookup that answers 200 for a riding without representative *)
lookup_representative_found(geom, reps, postal_code, lat, lng) == 200

(* lookup_representative: the status answered; 500 is MultipleResultsFound *)
(* out of scalar_one_or_none                                               *)
lookup_representative(geom, reps, postal_code, lat, lng) ==
    LET has_postal == postal_code.given
        has_lat == lat # NoCoord
        has_lng == lng # NoCoord
        ridings == get_by_point(geom, lat, lng)
        riding == CHOOSE r \in ridings : TRUE
        found == get_by_riding_id(reps, riding)
    IN  IF ~query_valid(lat, lng) THEN 422
        ELSE IF has_postal /\ (has_lat \/ has_lng) THEN 422
        ELSE IF ~has_postal /\ ~(has_lat \/ has_lng) THEN 422
        ELSE IF has_lat # has_lng THEN 422
        ELSE IF has_postal THEN 501
        ELSE IF Cardinality(ridings) > 1 THEN 500
        ELSE IF ridings = {} THEN 404
        ELSE IF Cardinality(found) > 1 THEN 500
        ELSE IF found = {} THEN 404
        ELSE 200

NoLookup == [postal_code |-> NoPostalCode, lat |-> NoCoord, lng |-> NoCoord,
             ridings |-> {}, status |-> 0]

InitLookup ==
    /\ riding_geom = [r \in 1..NumRidings |-> {}]
    /\ representatives = [i \in 1..NumReps |-> NoRep]
    /\ lookup_log = NoLookup

(* the boundaries ingest gives a riding its geom *)
IngestBoundary(riding, geom) ==
    /\ riding_geom' = [riding_geom EXCEPT ![riding] = geom]
    /\ UNCHANGED <<accountVars, outageVars, votesVars, debatesVars, expVars, upsertVars,
                   ingestVars, clientVars, representatives, lookup_log,
                   fetchVars,
                   moreVars>>

(* the members ingest writes a representative *)
IngestMember(i, riding, is_active) ==
    /\ representatives' = [representatives EXCEPT
                              ![i] = [riding_id |-> riding, is_active |-> is_active]]
    /\ UNCHANGED <<accountVars, outageVars, votesVars, debatesVars, expVars, upsertVars,
                   ingestVars, clientVars, riding_geom, lookup_log,
                   fetchVars,
                   moreVars>>

LookupRepresentative(postal_code, lat, lng) ==
    /\ lookup_log' = [postal_code |-> postal_code, lat |-> lat, lng |-> lng,
                      ridings |-> get_by_point(riding_geom, lat, lng),
                      status |-> lookup_representative(riding_geom, representatives,
                                                       postal_code, lat, lng)]
    /\ UNCHANGED <<accountVars, outageVars, votesVars, debatesVars, expVars, upsertVars,
                   ingestVars, clientVars, riding_geom, representatives,
                   fetchVars,
                   moreVars>>

-----------------------------------------------------------------------------
(* redis_client.get_redis and the calls made on the client it returns.     *)
(* The account handlers above use the store without tracking the client;   *)
(* the actions here track both.                                            *)
MaxTicks == 3
NumTtls == 2

RedisUrls == {"", "redis://localhost:6379/0"}
Environments == {"", "development", "dev", "test", "testing", "TEST", "staging",
                 "production"}

(* str.lower on the environment names above *)
env_lower(environment) == IF environment = "TEST" THEN "test" ELSE environment

(* the environments in which get_redis may fall back *)
fallback_allowed(environment) ==
    env_lower(IF environment = "" THEN "development" ELSE environment)
        \in {"development", "dev", "test", "testing"}

(* a get_redis that falls back wherever no URL is configured *)
get_redis_always_falls_back(cfg, client) ==
    IF client # "none" THEN [client |-> client, raised |-> FALSE]
    ELSE IF cfg.redis_url = "" THEN [client |-> "InMemoryRedis", raised |-> FALSE]
    ELSE [client |-> "Redis", raised |-> FALSE]

(* get_redis: the client returned and cached, or RuntimeError *)
get_redis(cfg, client) ==
    IF client # "none" THEN [client |-> client, raised |-> FALSE]
    ELSE IF cfg.redis_url = ""
    THEN IF fallback_allowed(cfg.environment)
         THEN [client |-> "InMemoryRedis", raised |-> FALSE]
         ELSE [client |-> "none", raised |-> TRUE]
    ELSE [client |-> "Redis", raised |-> FALSE]

StoreKeys == {<<"ratelimit", "ip", 1, 0>>, <<"usage", "key", 1, 0>>}

DefaultSettings == [redis_url |-> "", environment |-> "development"]
NoStoreCall == [op |-> "none", key |-> <<>>, value |-> NoneInt, raised |-> FALSE,
                expired |-> FALSE]

(* the key's expiry time had passed when the call came *)
expiry_passed(s, key, t) == key \in DOMAIN s.expiry /\ s.expiry[key] <= t

InitClient ==
    /\ settings = DefaultSettings
    /\ redis_client = "none"
    /\ store_log = NoStoreCall

(* a process starts with its settings read from the environment variables *)
StartProcess(redis_url, environment) ==
    /\ settings' = [redis_url |-> redis_url, environment |-> environment]
    /\ redis_client' = "none"
    /\ store' = EmptyStore
    /\ store_log' = NoStoreCall
    /\ UNCHANGED <<dbVars, now, advances, last, revealed, usageVars, rlVars, txVars,
                   outageVars, votesVars, debatesVars, expVars, upsertVars, ingestVars,
                   lookupVars,
                   fetchVars,
                   moreVars>>

(* await get_redis() *)
GetRedis ==
    LET r == get_redis(settings, redis_client)
    IN  /\ redis_client' = r.client
        /\ store_log' = [op |-> "get_redis", key |-> <<>>, value |-> NoneInt,
                         raised |-> r.raised, expired |-> FALSE]
        /\ UNCHANGED <<accountVars, outageVars, votesVars, debatesVars, expVars,
                       upsertVars, ingestVars, lookupVars, settings,
                   fetchVars,
                   moreVars>>

(* what every call on the fallback client leaves alone *)
StoreCallFrame ==
    /\ redis_client = "InMemoryRedis"
    /\ UNCHANGED <<dbVars, now, advances, last, revealed, usageVars, rlVars, txVars,
                   outageVars, votesVars, debatesVars, expVars, upsertVars, ingestVars,
                   lookupVars, settings, redis_client,
                   fetchVars,
                   moreVars>>

(* InMemoryRedis.incr *)
StoreIncr(key) ==
    LET r == redis_incr(store, key, now)
    IN  /\ r.value <= MaxCount
        /\ store' = r.store
        /\ store_log' = [op |-> "incr", key |-> key, value |-> r.value, raised |-> FALSE,
                         expired |-> expiry_passed(store, key, now)]
        /\ StoreCallFrame

(* InMemoryRedis.get *)
StoreGet(key) ==
    LET r == redis_get(store, key, now)
    IN  /\ store' = r.store
        /\ store_log' = [op |-> "get", key |-> key, value |-> r.value, raised |-> FALSE,
                         expired |-> expiry_passed(store, key, now)]
        /\ StoreCallFrame

(* InMemoryRedis.set, with ex = NoneInt for no expiry *)
StoreSet(key, value, ex) ==
    /\ store' = redis_set(store, key, value, ex, now)
    /\ store_log' = [op |-> "set", key |-> key, value |-> NoneInt, raised |-> FALSE,
                         expired |-> expiry_passed(store, key, now)]
    /\ StoreCallFrame

(* InMemoryRedis.expire *)
StoreExpire(key, seconds) ==
    /\ store' = redis_expire(store, key, seconds, now)
    /\ store_log' = [op |-> "expire", key |-> key, value |-> NoneInt, raised |-> FALSE,
                         expired |-> expiry_passed(store, key, now)]
    /\ StoreCallFrame

(* InMemoryRedis.delete *)
StoreDelete(key) ==
    /\ store' = redis_delete(store, key)
    /\ store_log' = [op |-> "delete", key |-> key, value |-> NoneInt, raised |-> FALSE,
                         expired |-> expiry_passed(store, key, now)]
    /\ StoreCallFrame

(* a second passes on time.time() *)
Tick ==
    /\ advances < MaxTicks
    /\ now' = now + 1
    /\ advances' = advances + 1
    /\ UNCHANGED <<auxVars, dbVars, store, last, revealed, usageVars, rlVars, txVars>>

-----------------------------------------------------------------------------
(* HoCParliamentIngestionService._fetch_text called by several tasks at    *)
(* once: async with self.semaphore, then _throttle under self._last_lock,  *)
(* then the request.                                                       *)
hoc_max_concurrency == 2
NumFetchers == 3

Fetchers == 1..NumFetchers

(* the permits after a request that gives its permit back only on success *)
semaphore_after_success_only(permits, ok) == IF ok THEN permits + 1 ELSE permits

(* leaving async with self.semaphore, by return or by exception *)
semaphore_after(permits, ok) == permits + 1

InitFetch ==
    /\ semaphore = hoc_max_concurrency
    /\ last_lock = 0
    /\ fetch = [t \in Fetchers |-> "idle"]
    /\ fetch_raised = FALSE

FetchFrame ==
    UNCHANGED <<accountVars, outageVars, votesVars, debatesVars, expVars, upsertVars,
                ingestVars, lookupVars, clientVars,
                   moreVars>>

(* a task calls _fetch_text and waits at the semaphore *)
FetchCall(t) ==
    /\ fetch[t] = "idle"
    /\ fetch' = [fetch EXCEPT ![t] = "acquire"]
    /\ UNCHANGED <<semaphore, last_lock, fetch_raised>>
    /\ FetchFrame

(* async with self.semaphore: a permit is taken *)
FetchAcquire(t) ==
    /\ fetch[t] = "acquire"
    /\ semaphore > 0
    /\ semaphore' = semaphore - 1
    /\ fetch' = [fetch EXCEPT ![t] = "throttle"]
    /\ UNCHANGED <<last_lock, fetch_raised>>
    /\ FetchFrame

(* _throttle: async with self._last_lock, then the sleep *)
ThrottleEnter(t) ==
    /\ fetch[t] = "throttle"
    /\ last_lock = 0
    /\ last_lock' = t
    /\ fetch' = [fetch EXCEPT ![t] = "sleep"]
    /\ UNCHANGED <<semaphore, fetch_raised>>
    /\ FetchFrame

(* _throttle: the sleep is over, the time is recorded, the lock is left,   *)
(* and the request goes out                                                *)
ThrottleLeave(t) ==
    /\ fetch[t] = "sleep"
    /\ last_lock' = 0
    /\ fetch' = [fetch EXCEPT ![t] = "request"]
    /\ UNCHANGED <<semaphore, fetch_raised>>
    /\ FetchFrame

(* the request ends: the text is returned (ok) or httpx.HTTPError becomes  *)
(* IngestionError; either way the block of the semaphore is left           *)
FetchEnd(t, ok) ==
    /\ fetch[t] = "request"
    /\ semaphore' = semaphore_after(semaphore, ok)
    /\ fetch' = [fetch EXCEPT ![t] = "idle"]
    /\ fetch_raised' = (fetch_raised \/ ~ok)
    /\ UNCHANGED last_lock
    /\ FetchFrame

-----------------------------------------------------------------------------
(* HoCParliamentIngestionService._throttle(host) called by several tasks   *)
(* that are inside _fetch_text: one asyncio.Lock (self._last_lock) for     *)
(* every host, the table self._last_request keyed by host, and the sleep   *)
(* taken while the lock is held. Time is counted in clock ticks.           *)
hoc_min_request_interval == 2
NumThrottlers == 3
MaxMono == 4

Throttlers == 1..NumThrottlers
Hosts == {"www.ourcommons.ca", "www.parl.ca"}
NoHost == "none"

(* wait = self.min_interval - (now - last) *)
throttle_wait(interval, t_now, last_time) == interval - (t_now - last_time)

(* self._last_request.get(host, 0.0) *)
last_request_get(tbl, host) == IF host \in DOMAIN tbl THEN tbl[host] ELSE 0

IdleThrottler == [pc |-> "idle", host |-> NoHost, wake |-> 0]

InitThrottleWith(interval) ==
    /\ min_interval = interval
    /\ mono = 0
    /\ last_request = EmptyMap
    /\ throttle_lock = 0
    /\ thr = [t \in Throttlers |-> IdleThrottler]
    /\ request_starts = [h \in Hosts |-> <<>>]

InitThrottle == InitThrottleWith(hoc_min_request_interval)

ThrottleFrame ==
    UNCHANGED <<accountVars, outageVars, votesVars, debatesVars, expVars, upsertVars,
                ingestVars, lookupVars, clientVars, fetchVars, rolesVars, standingsVars>>

(* _throttle(host) is called: it returns at once when min_interval <= 0,   *)
(* otherwise the caller waits for self._last_lock                          *)
ThrottleCall(t, host) ==
    /\ thr[t].pc = "idle"
    /\ thr' = [thr EXCEPT ![t] = IF min_interval <= 0 THEN IdleThrottler
                                  ELSE [pc |-> "lock", host |-> host, wake |-> 0]]
    /\ UNCHANGED <<min_interval, mono, last_request, throttle_lock, request_starts>>
    /\ ThrottleFrame

(* async with self._last_lock: the lock is taken, now and last are read    *)
(* and wait is computed; with wait <= 0 the time is recorded and the lock  *)
(* left in the same step (there is no await in between)                    *)
ThrottleLock(t) ==
    /\ thr[t].pc = "lock"
    /\ throttle_lock = 0
    /\ LET host == thr[t].host
           wait == throttle_wait(min_interval, mono, last_request_get(last_request, host))
       IN  IF wait > 0
           THEN /\ throttle_lock' = t
                /\ thr' = [thr EXCEPT ![t] = [pc |-> "sleep", host |-> host,
                                               wake |-> mono + wait]]
                /\ UNCHANGED <<last_request, request_starts>>
           ELSE /\ last_request' = Put(last_request, host, mono)
                /\ request_starts' = [request_starts EXCEPT
                                          ![host] = Append(@, mono)]
                /\ thr' = [thr EXCEPT ![t] = IdleThrottler]
                /\ UNCHANGED throttle_lock
    /\ UNCHANGED <<min_interval, mono>>
    /\ ThrottleFrame

(* asyncio.sleep(wait) is over: time.monotonic() is recorded for the host  *)
(* and the lock is left                                                    *)
ThrottleWake(t) ==
    /\ thr[t].pc = "sleep"
    /\ mono >= thr[t].wake
    /\ last_request' = Put(last_request, thr[t].host, mono)
    /\ request_starts' = [request_starts EXCEPT ![thr[t].host] = Append(@, mono)]
    /\ throttle_lock' = 0
    /\ thr' = [thr EXCEPT ![t] = IdleThrottler]
    /\ UNCHANGED <<min_interval, mono>>
    /\ ThrottleFrame

(* the monotonic clock moves on *)
MonoTick ==
    /\ mono < MaxMono
    /\ mono' = mono + 1
    /\ UNCHANGED <<min_interval, last_request, throttle_lock, thr, request_starts>>
    /\ ThrottleFrame

-----------------------------------------------------------------------------
(* The roles pipeline: HoCParliamentIngestionService.ingest_roles over the *)
(* table representative_roles.  Upstream, the per-MP XML either cannot be  *)
(* fetched or decoded (FailedRoles) or decodes to a set of roles.          *)
NumRoleReps == 2

RoleReps == 1..NumRoleReps
RoleNames == {"Caucus Member", "Committee Member"}
FailedRoles == [ok |-> FALSE, roles |-> {}]
RoleResults == {FailedRoles} \cup {[ok |-> TRUE, roles |-> s] : s \in SUBSET RoleNames}

(* the active representatives, in the order the select returns them *)
RECURSIVE RepList(_)
RepList(reps) ==
    IF reps = {} THEN <<>>
    ELSE LET first == CHOOSE r \in reps : \A o \in reps : r <= o
         IN  <<first>> \o RepList(reps \ {first})

(* a delete that removes no row *)
delete_no_role(rows, representative_id) == rows

(* RepresentativeRoleRepository.delete_by_representative_id *)
delete_by_representative_id(rows, representative_id) ==
    {r \in rows : r.representative_id # representative_id}

(* role_repo.create(representative_id=rep.id, **role) for role in roles *)
create_roles(rows, representative_id, roles) ==
    rows \cup {[representative_id |-> representative_id, role_name |-> role] :
                  role \in roles}

(* one turn of the loop of ingest_roles over the representatives *)
ingest_role(rows, stats, representative_id, result) ==
    IF ~result.ok
    THEN [rows |-> rows, stats |-> [stats EXCEPT !.errors = @ + 1]]
    ELSE [rows |-> create_roles(delete_by_representative_id(rows, representative_id),
                                representative_id, result.roles),
          stats |-> [stats EXCEPT !.roles = @ + Cardinality(result.roles)]]

NoRoleStats == [representatives |-> 0, roles |-> 0, errors |-> 0]
IdleRoles == [pc |-> "idle", todo |-> <<>>, stats |-> NoRoleStats]
NoRoleLog == [representative_id |-> 0, failed |-> FALSE, left |-> 0]

InitRoles ==
    /\ representative_roles = {}
    /\ rrun = IdleRoles
    /\ role_log = NoRoleLog

RolesFrame ==
    UNCHANGED <<accountVars, outageVars, votesVars, debatesVars, expVars, upsertVars,
                ingestVars, lookupVars, clientVars, fetchVars, throttleVars,
                standingsVars>>

(* ingest_roles up to the loop: the active representatives are selected;  *)
(* with none of them the run is over at once                               *)
RolesBegin(active) ==
    /\ rrun.pc = "idle"
    /\ rrun' = IF active = {} THEN IdleRoles
               ELSE [pc |-> "reps", todo |-> RepList(active),
                     stats |-> [NoRoleStats EXCEPT
                                   !.representatives = Cardinality(active)]]
    /\ role_log' = NoRoleLog
    /\ UNCHANGED representative_roles
    /\ RolesFrame

(* one representative: fetch and decode, then delete and insert; after the *)
(* last one the session commits                                            *)
RoleItem(result) ==
    LET rep == Head(rrun.todo)
        r == ingest_role(representative_roles, rrun.stats, rep, result)
        rest == Tail(rrun.todo)
    IN  /\ rrun.pc = "reps"
        /\ representative_roles' = r.rows
        /\ rrun' = IF rest = <<>> THEN [IdleRoles EXCEPT !.stats = r.stats]
                   ELSE [rrun EXCEPT !.todo = rest, !.stats = r.stats]
        /\ role_log' = [representative_id |-> rep, failed |-> ~result.ok,
                        left |-> Len(rest)]
        /\ RolesFrame

-----------------------------------------------------------------------------
(* The party standings pipeline: ingest_party_standings over the tables    *)
(* parties and party_standings (the rows of today's as_of_date).  Parties  *)
(* are also created by the members pipeline (HoCIngestionService).         *)
NumSeatCounts == 2

CaucusNames == {"Liberal", "Conservative", "Vacant", "VACANT"}
SeatCounts == 1..NumSeatCounts

(* str.lower on the caucus names *)
caucus_lower(name) == IF name \in {"Vacant", "VACANT"} THEN "vacant" ELSE name

NoStanding == [present |-> FALSE, party_id |-> NoneInt, seat_count |-> 0]

(* PartyRepository.get_by_name: the id, NoneInt for None *)
get_by_name(rows, name) ==
    IF \E p \in rows : p.name = name
    THEN (CHOOSE p \in rows : p.name = name).id
    ELSE NoneInt

(* a get_or_create that only looks the party up *)
get_without_create(rows, name) == [rows |-> rows, id |-> get_by_name(rows, name)]

(* PartyRepository.get_or_create *)
get_or_create(rows, name) ==
    IF get_by_name(rows, name) # NoneInt
    THEN [rows |-> rows, id |-> get_by_name(rows, name)]
    ELSE [rows |-> rows \cup {[id |-> Cardinality(rows) + 1, name |-> name]},
          id |-> Cardinality(rows) + 1]

(* the party of a standing: none for vacant seats, else the party of that  *)
(* name, looked up and created when there is none                          *)
standing_party(rows, party_name) ==
    IF caucus_lower(party_name) = "vacant" THEN [rows |-> rows, id |-> NoneInt]
    ELSE IF get_by_name(rows, party_name) # NoneInt
    THEN [rows |-> rows, id |-> get_by_name(rows, party_name)]
    ELSE get_or_create(rows, party_name)

(* the loop of ingest_party_standings over party_totals *)
RECURSIVE ingest_standings(_, _, _)
ingest_standings(rows, standings, party_totals) ==
    IF DOMAIN party_totals = {} THEN [parties |-> rows, party_standings |-> standings]
    ELSE LET party_name == CHOOSE n \in DOMAIN party_totals : TRUE
             party == standing_party(rows, party_name)
             rest == [n \in DOMAIN party_totals \ {party_name} |-> party_totals[n]]
         IN  ingest_standings(
                 party.rows,
                 [standings EXCEPT ![party_name] =
                     [present |-> TRUE, party_id |-> party.id,
                      seat_count |-> party_totals[party_name]]],
                 rest)

PartyTotals == UNION {[names -> SeatCounts] : names \in SUBSET CaucusNames}
NoStandingsLog == [ran |-> FALSE, party_totals |-> <<>>, before |-> {}]

InitStandings ==
    /\ parties = {}
    /\ party_standings = [n \in CaucusNames |-> NoStanding]
    /\ standings_log = NoStandingsLog

StandingsFrame ==
    UNCHANGED <<accountVars, outageVars, votesVars, debatesVars, expVars, upsertVars,
                ingestVars, lookupVars, clientVars, fetchVars, throttleVars,
                rolesVars>>

(* ingest_party_standings: the XML is fetched and decoded to party_totals, *)
(* then every total is upserted in one session scope                       *)
IngestPartyStandings(party_totals) ==
    LET r == ingest_standings(parties, party_standings, party_totals)
    IN  /\ parties' = r.parties
        /\ party_standings' = r.party_standings
        /\ standings_log' = [ran |-> TRUE, party_totals |-> party_totals,
                             before |-> parties]
        /\ StandingsFrame

(* the members pipeline meets an MP of this party *)
IngestMemberParty(name) ==
    /\ caucus_lower(name) # "vacant"
    /\ parties' = get_or_create(parties, name).rows
    /\ UNCHANGED <<party_standings, standings_log>>
    /\ StandingsFrame

(* resp: what the handler produced, what the client got *)
NoResponse == [produced |-> 0, returned |-> 0]

(* last: the operation, its user (0: none), the status it answered, the     *)
(* plaintext it returned, the user's active keys before it, and the        *)
(* subscription status its event carried                                   *)
NoOp == [op |-> "none", user |-> 0, status |-> 0, api_key |-> NoneInt, prev |-> {},
         arg |-> "none"]

InitDb ==
    /\ api_keys = <<>>
    /\ billing = [u \in Users |-> NoBilling]

InitOthers ==
    /\ store = EmptyStore
    /\ now = 0
    /\ advances = 0
    /\ last = NoOp
    /\ revealed = EmptyMap
    /\ served = EmptyMap
    /\ first_use = EmptyMap
    /\ reqs = EmptyMap
    /\ rl_calls = EmptyMap
    /\ tx = EmptyMap
    /\ locks = EmptyMap
    /\ resp = NoResponse
    /\ InitVotes
    /\ InitExpenditures
    /\ InitUpserts
    /\ ingest_run = NoIngest
    /\ InitLookup
    /\ InitClient
    /\ InitFetch
    /\ InitRoles
    /\ InitStandings

InitIdle == InitOthers /\ InitDebates /\ InitThrottle

Init == InitDb /\ InitIdle

Here == World(api_keys, billing, store)

Install(w) ==
    /\ api_keys' = w.api_keys
    /\ billing' = w.billing
    /\ store' = w.store

(* the clock moves on *)
Advance(dt) ==
    /\ advances < MaxAdvances
    /\ now' = now + dt
    /\ advances' = advances + 1
    /\ UNCHANGED <<auxVars, dbVars, store, last, revealed, usageVars, rlVars, txVars>>

(* POST /v1/billing/checkout *)
CreateCheckoutSession(u) ==
    /\ billing' = ensure_customer(billing, u)
    /\ last' = [NoOp EXCEPT !.op = "create_checkout_session", !.user = u, !.status = 200]
    /\ UNCHANGED <<auxVars, api_keys, store, now, advances, revealed, usageVars, rlVars, txVars>>

(* POST /v1/billing/webhook *)
Webhook(ev) ==
    LET r == handle_webhook_event(Here, ev, now)
        u == IF ev.type = "checkout.session.completed" THEN ev.client_reference_id
             ELSE get_by_customer_id(billing, ev.customer)
    IN  /\ Len(r.world.api_keys) <= MaxKeys
        /\ Install(r.world)
        /\ last' = [op |-> ev.type, user |-> u,
                    status |-> IF r.error THEN 500 ELSE 200, api_key |-> NoneInt,
                    prev |-> IF u = 0 THEN {} ELSE ActiveKeysOf(api_keys, u),
                    arg |-> IF ev.type = "checkout.session.completed"
                            THEN ev.subscription.status ELSE ev.status]
        /\ UNCHANGED <<auxVars, now, advances, revealed, usageVars, rlVars, txVars>>

(* POST /v1/account/api-key/rotate *)
RotateApiKey(u) ==
    LET r == rotate_api_key(Here, u)
    IN  /\ Len(r.world.api_keys) <= MaxKeys
        /\ Install(r.world)
        /\ last' = [NoOp EXCEPT !.op = "rotate_api_key", !.user = u, !.status = r.status,
                                !.api_key = r.api_key,
                                !.prev = ActiveKeysOf(api_keys, u)]
        /\ UNCHANGED <<auxVars, now, advances, revealed, usageVars, rlVars, txVars>>

(* GET /v1/account/api-key *)
GetApiKey(u) ==
    LET r == get_api_key(Here, u, now)
    IN  /\ Install(r.world)
        /\ last' = [NoOp EXCEPT !.op = "get_api_key", !.user = u, !.status = r.status,
                                !.api_key = r.api_key]
        /\ revealed' = IF r.api_key # NoneInt
                       THEN Put(revealed, r.api_key, Lookup(revealed, r.api_key, 0) + 1)
                       ELSE revealed
        /\ UNCHANGED <<auxVars, now, advances, usageVars, rlVars, txVars>>

(* GET /v1/<data endpoint>: the dependency, the handler (which answers     *)
(* handler_status) and the usage middleware.  served and first_use record  *)
(* the responses < 400 given to a key in the owner's current period        *)

RECURSIVE SumOf(_, _)
SumOf(f, keys) ==
    IF keys = {} THEN 0
    ELSE LET k == CHOOSE x \in keys : TRUE
         IN  f[k] + SumOf(f, keys \ {k})

(* the requests the rate-limit counters of the store have counted *)
RateLimited(s) == SumOf(s.data, {key \in DOMAIN s.data : key[1] = "ratelimit"})

HeaderKind(header) ==
    IF ~header.present THEN "absent"
    ELSE IF Strip(header).token = 0 THEN "blank"
    ELSE "key"

DataRequest(header, ip, handler_status) ==
    LET d == rate_limit_dependency(Here, header, ip, now)
        status_code == IF d.status = 200 THEN handler_status ELSE d.status
        s1 == usage_middleware(d.store, d.state, status_code, now)
        K == get_by_hash(api_keys, hash_api_key(Strip(header).token))
        owner == billing[api_keys[K].user_id]
        counted == /\ HeaderKind(header) = "key"
                   /\ K # 0
                   /\ status_code < 400
                   /\ owner.current_period_start # NoneInt
        kp == <<K, owner.current_period_start>>
    IN  /\ RateLimited(s1) <= MaxCount
        /\ store' = s1
        /\ last' = [NoOp EXCEPT !.op = "data_request", !.status = status_code,
                                !.arg = HeaderKind(header)]
        /\ served' = IF counted THEN Put(served, kp, Lookup(served, kp, 0) + 1)
                     ELSE served
        /\ first_use' = IF counted /\ kp \notin DOMAIN first_use
                        THEN Put(first_use, kp,
                                 [at |-> now, period_end |-> owner.current_period_end])
                        ELSE first_use
        /\ UNCHANGED <<auxVars, dbVars, now, advances, revealed, rlVars, txVars>>

(* A data request during which the counter store starts to raise after    *)
(* the dependency has run: the handler answers, increment_usage raises     *)
DataRequestUsageFails(header, ip, handler_status) ==
    LET d == rate_limit_dependency(Here, header, ip, now)
        status_code == IF d.status = 200 THEN handler_status ELSE d.status
        returned == usage_middleware_status(d.state, status_code, TRUE)
    IN  /\ status_code < 400
        /\ usage_reaches_store(d.state)
        /\ RateLimited(d.store) <= MaxCount
        /\ store' = d.store
        /\ resp' = [produced |-> status_code, returned |-> returned]
        /\ last' = [NoOp EXCEPT !.op = "data_request", !.status = returned,
                                !.arg = HeaderKind(header)]
        /\ UNCHANGED <<dbVars, now, advances, revealed, usageVars, rlVars, txVars,
                         votesVars, debatesVars, expVars, upsertVars, ingestVars,
                         lookupVars, clientVars, fetchVars,
                   moreVars>>

(* the events that carry the first billing period, and those of one user *)
FirstPeriod == 0 * PeriodSeconds

LifecycleEvents ==
    {ev \in WebhookEvents :
        IF ev.type = "checkout.session.completed"
        THEN ev.subscription.current_period_start \in {NoneInt, FirstPeriod}
        ELSE ev.current_period_start = FirstPeriod}

EventsOf(evs, u) == {ev \in evs : ev.customer = StripeCustomer(u)}

Subscriber == CHOOSE u \in Users : TRUE

(* The account and billing handlers of every user, one request at a time *)
Next ==
    \/ \E u \in Users : CreateCheckoutSession(u)
    \/ \E ev \in LifecycleEvents : Webhook(ev)
    \/ \E u \in Users : RotateApiKey(u)

Spec == Init /\ [][Next]_vars

(* One subscriber's key, its one-shot reveal and the clock *)
NextReveal ==
    \/ \E ev \in EventsOf(LifecycleEvents, Subscriber) : Webhook(ev)
    \/ RotateApiKey(Subscriber)
    \/ GetApiKey(Subscriber)
    \/ Advance(RevealTtl)

SpecReveal == Init /\ [][NextReveal]_vars

(* Concurrent calls of _apply_rate_limit, one per task.  A call reads the   *)
(* clock and names its key, then awaits INCR, then (for count 1) awaits    *)
(* EXPIRE, then decides; other tasks and the clock move at each await.     *)
(* rl_calls records, for each key, the number n of INCRs issued on it and  *)
(* the expiry its first EXPIRE gave it; rank is the call's place among the *)
(* INCRs, at the time its INCR ran, live whether it ran before that expiry *)
NumTasks == 3

Tasks == 1..NumTasks

CallSites ==
    {[identity |-> IpIdentity(SomeIp), limit |-> free_rate_limit_per_minute],
     [identity |-> KeyIdentity(1), limit |-> paid_rate_limit_per_minute]}

NoCalls == [n |-> 0, expiry |-> NoneInt]

Decision(count, limit) == IF rate_limit_exceeded(count, limit) THEN 429 ELSE 200

RLBegin(task, site) ==
    /\ task \notin DOMAIN reqs
    /\ reqs' = Put(reqs, task,
                   [pc |-> "incr", identity |-> site.identity, limit |-> site.limit,
                    window |-> WindowOf(now), count |-> 0, rank |-> 0,
                    at |-> NoneInt, live |-> FALSE, status |-> 0])
    /\ UNCHANGED <<auxVars, dbVars, store, now, advances, last, revealed, usageVars,
                   rl_calls, txVars>>

RLIncr(task) ==
    /\ task \in DOMAIN reqs
    /\ reqs[task].pc = "incr"
    /\ LET c == reqs[task]
           key == RateLimitKey(c.identity, c.window)
           r == redis_incr(store, key, now)
           seen == Lookup(rl_calls, key, NoCalls)
           rank == seen.n + 1
       IN  /\ store' = r.store
           /\ rl_calls' = Put(rl_calls, key, [seen EXCEPT !.n = rank])
           /\ reqs' = [reqs EXCEPT ![task] =
                          [c EXCEPT !.count = r.value, !.rank = rank, !.at = now,
                                    !.live = seen.expiry = NoneInt \/ now < seen.expiry,
                                    !.pc = IF r.value = 1 THEN "expire" ELSE "done",
                                    !.status = IF r.value = 1 THEN 0
                                               ELSE Decision(r.value, c.limit)]]
    /\ UNCHANGED <<auxVars, dbVars, now, advances, last, revealed, usageVars, txVars>>

RLExpire(task) ==
    /\ task \in DOMAIN reqs
    /\ reqs[task].pc = "expire"
    /\ LET c == reqs[task]
           key == RateLimitKey(c.identity, c.window)
       IN  /\ store' = redis_expire(store, key, WindowSeconds, now)
           /\ reqs' = [reqs EXCEPT ![task] =
                          [c EXCEPT !.pc = "done", !.status = Decision(c.count, c.limit)]]
           /\ rl_calls' = IF rl_calls[key].expiry = NoneInt
                          THEN [rl_calls EXCEPT ![key].expiry = now + WindowSeconds]
                          ELSE rl_calls
    /\ UNCHANGED <<auxVars, dbVars, now, advances, last, revealed, usageVars, txVars>>

NextRL ==
    \/ \E task \in Tasks, site \in CallSites : RLBegin(task, site)
    \/ \E task \in Tasks : RLIncr(task)
    \/ \E task \in Tasks : RLExpire(task)
    \/ \E dt \in {WindowSeconds - 1, WindowSeconds} : Advance(dt)

SpecRL == Init /\ [][NextRL]_vars

(* Concurrent POST /v1/account/api-key/rotate requests, each in its own    *)
(* database session (READ COMMITTED).  A request checks the subscription,  *)
(* runs the UPDATE of deactivate_for_user (the statement sees the rows     *)
(* committed when it starts, waits for rows another session has locked,    *)
(* and updates those that still match when it gets them), inserts the new  *)
(* key, and commits when the session scope ends.  Webhooks are taken       *)
(* while no rotate is in progress.                                         *)
NumSessions == 2

Sessions == 1..NumSessions

NoTx == [pc |-> "idle", user |-> 0, targets |-> {}, deact |-> {}, status |-> 0]

TxOf(s) == Lookup(tx, s, NoTx)

RotateBegin(s, u) ==
    /\ TxOf(s).pc \in {"idle", "done"}
    /\ tx' = Put(tx, s,
                 IF ~billing[u].present \/ ~is_subscription_active(billing[u].status)
                 THEN [NoTx EXCEPT !.pc = "done", !.user = u, !.status = 403]
                 ELSE [NoTx EXCEPT !.pc = "update", !.user = u])
    /\ UNCHANGED <<auxVars, dbVars, store, now, advances, last, revealed, usageVars, rlVars, locks>>

(* the UPDATE starts: the rows that match in its snapshot *)
RotateScan(s) ==
    /\ TxOf(s).pc = "update"
    /\ tx' = [tx EXCEPT ![s].pc = "lock",
                        ![s].targets = ActiveKeysOf(api_keys, tx[s].user)]
    /\ UNCHANGED <<auxVars, dbVars, store, now, advances, last, revealed, usageVars, rlVars, locks>>

(* the UPDATE gets its rows: those of the snapshot that still match *)
RotateLock(s) ==
    /\ TxOf(s).pc = "lock"
    /\ \A k \in tx[s].targets : Lookup(locks, k, 0) \in {0, s}
    /\ LET deact == {k \in tx[s].targets : api_keys[k].active}
       IN  /\ tx' = [tx EXCEPT ![s].pc = "insert", ![s].deact = deact]
           /\ locks' = [k \in (DOMAIN locks) \cup deact |->
                           IF k \in deact THEN s ELSE locks[k]]
    /\ UNCHANGED <<auxVars, dbVars, store, now, advances, last, revealed, usageVars, rlVars>>

(* api_repo.create: INSERT and flush, not yet visible to other sessions *)
RotateInsert(s) ==
    /\ TxOf(s).pc = "insert"
    /\ tx' = [tx EXCEPT ![s].pc = "commit"]
    /\ UNCHANGED <<auxVars, dbVars, store, now, advances, last, revealed, usageVars, rlVars, locks>>

(* session.commit(): the writes become visible, the locks are released *)
RotateCommit(s) ==
    /\ TxOf(s).pc = "commit"
    /\ Len(api_keys) < MaxKeys
    /\ LET gen == generate_api_key(api_keys)
           keys1 == [k \in KeyIds(api_keys) |->
                        IF k \in tx[s].deact THEN [api_keys[k] EXCEPT !.active = FALSE]
                        ELSE api_keys[k]]
       IN  /\ api_keys' = create_api_key(keys1, tx[s].user, gen, TRUE)
           /\ last' = [NoOp EXCEPT !.op = "rotate_api_key", !.user = tx[s].user,
                                   !.status = 200, !.api_key = gen.plaintext,
                                   !.prev = tx[s].deact]
    /\ tx' = [tx EXCEPT ![s].pc = "done", ![s].status = 200]
    /\ locks' = [k \in DOMAIN locks |-> IF locks[k] = s THEN 0 ELSE locks[k]]
    /\ UNCHANGED <<auxVars, billing, store, now, advances, revealed, usageVars, rlVars>>

NoRotateInProgress == \A s \in Sessions : TxOf(s).pc \in {"idle", "done"}

NextRotate ==
    \/ \E ev \in LifecycleEvents : NoRotateInProgress /\ Webhook(ev)
    \/ \E s \in Sessions, u \in Users : RotateBegin(s, u)
    \/ \E s \in Sessions : RotateScan(s)
    \/ \E s \in Sessions : RotateLock(s)
    \/ \E s \in Sessions : RotateInsert(s)
    \/ \E s \in Sessions : RotateCommit(s)

SpecRotate == Init /\ [][NextRotate]_vars

(* One subscriber's data requests, with and without key, while the         *)
(* subscription starts, renews into the next period and is canceled, and   *)
(* the clock moves on; the subscriber gets at most AccessKeys keys         *)
AccessKeys == 2

AccessEvents ==
    {ev \in EventsOf(WebhookEvents, Subscriber) :
        \/ /\ ev.type = "checkout.session.completed"
           /\ ev.subscription.status = "active"
           /\ ev.subscription.current_period_start = FirstPeriod
        \/ ev.type = "customer.subscription.updated" /\ ev.status = "active"
        \/ ev.type = "customer.subscription.deleted"}

Headers ==
    {NoHeader, HeaderOf(0, TRUE), HeaderOf(1, TRUE)}
        \cup {HeaderOf(k, FALSE) : k \in 0..(AccessKeys + 1)}

HandlerStatuses == {200, 404}

NextAccess ==
    \/ \E ev \in AccessEvents : Webhook(ev) /\ Len(api_keys') <= AccessKeys
    \/ \E h \in Headers, hs \in HandlerStatuses : DataRequest(h, SomeIp, hs)
    \/ Advance(PeriodSeconds + DayAfter)

SpecAccess == Init /\ [][NextAccess]_vars

(* The same requests while the counter store fails under increment_usage *)
NextOutage ==
    \/ \E ev \in AccessEvents : Webhook(ev) /\ Len(api_keys') <= AccessKeys
    \/ \E h \in Headers, hs \in HandlerStatuses : DataRequestUsageFails(h, SomeIp, hs)

SpecOutage == Init /\ [][NextOutage]_vars

(* A subscriber whose subscription ends and comes back, the rotation of    *)
(* the key, and data requests                                              *)
NextResubscribe ==
    \/ \E ev \in AccessEvents : Webhook(ev) /\ Len(api_keys') <= AccessKeys
    \/ RotateApiKey(Subscriber) /\ Len(api_keys') <= AccessKeys
    \/ \E h \in Headers, hs \in HandlerStatuses : DataRequest(h, SomeIp, hs)

SpecResubscribe == Init /\ [][NextResubscribe]_vars

(* ingest_votes, run after run *)
NextVotes ==
    \/ \E found \in BOOLEAN : VotesBegin(found)
    \/ \E item \in VoteItems : VoteItem(item)
    \/ VotesEnd

SpecVotes == Init /\ [][NextVotes]_vars

(* both pipelines that skip on an unchanged hash; the votes list is held   *)
(* to one vote number here                                                 *)
HoCVoteItems == {item \in VoteItems : item.vote_number = 1}
HoCPages == {page \in HansardPages : Len(page.interventions) <= 1}

NextHoC ==
    \/ \E found \in BOOLEAN : VotesBegin(found)
    \/ \E item \in HoCVoteItems : VoteItem(item)
    \/ VotesEnd
    \/ DebatesBegin
    \/ \E page \in HoCPages : DebateFetch(TRUE, page)
    \/ DebateFetch(FALSE, NoHansard)

SpecHoC == Init /\ [][NextHoC]_vars

(* the two expenditure ingests, run after run *)
NextExpenditures ==
    \/ \E file \in ExpFiles : IngestMemberExpenditures(file)
    \/ \E files \in OfficerFileLists : IngestHouseOfficerExpenditures(files)
    \/ IngestExpendituresRaises

SpecExpenditures == Init /\ [][NextExpenditures]_vars

(* a session that calls the upsert of one repository again and again *)
NextUpserts ==
    \E repo \in Repositories : \E key \in NaturalKeys(repo), kwargs \in 1..NumRevs :
        Upsert(repo, key, kwargs)

SpecUpserts == Init /\ [][NextUpserts]_vars

(* the orchestrator, call after call *)
NextIngest ==
    \E enabled \in SUBSET PipelineNames : \E raising \in SUBSET enabled :
        Ingest(enabled, raising)

SpecIngest == Init /\ [][NextIngest]_vars

(* lookups over a changing set of ridings and representatives *)
NextLookup ==
    \/ \E r \in 1..NumRidings, geom \in SUBSET Points : IngestBoundary(r, geom)
    \/ \E i \in 1..NumReps, r \in 1..NumRidings, a \in BOOLEAN : IngestMember(i, r, a)
    \/ \E pc \in PostalCodes, lat \in Lats \cup {NoCoord}, lng \in Lngs \cup {NoCoord} :
          LookupRepresentative(pc, lat, lng)

SpecLookup == Init /\ [][NextLookup]_vars

(* processes that get the counter store client and call it *)
NextClient ==
    \/ \E url \in RedisUrls, env \in Environments : StartProcess(url, env)
    \/ GetRedis
    \/ \E key \in StoreKeys : StoreIncr(key)
    \/ \E key \in StoreKeys : StoreGet(key)
    \/ \E key \in StoreKeys, ex \in {NoneInt} \cup (1..NumTtls) : StoreSet(key, 1, ex)
    \/ \E key \in StoreKeys, seconds \in 1..NumTtls : StoreExpire(key, seconds)
    \/ \E key \in StoreKeys : StoreDelete(key)
    \/ Tick

SpecClient == Init /\ [][NextClient]_vars

(* concurrent callers of _fetch_text *)
NextFetch ==
    \E t \in Fetchers :
        \/ FetchCall(t)
        \/ FetchAcquire(t)
        \/ ThrottleEnter(t)
        \/ ThrottleLeave(t)
        \/ \E ok \in BOOLEAN : FetchEnd(t, ok)

SpecFetch == Init /\ [][NextFetch]_vars

(* concurrent callers of _throttle *)
NextThrottle ==
    \/ \E t \in Throttlers :
           \/ \E host \in Hosts : ThrottleCall(t, host)
           \/ ThrottleLock(t)
           \/ ThrottleWake(t)
    \/ MonoTick

(* a service made with the throttle switched off (interval 0) or on *)
InitService ==
    /\ InitDb /\ InitOthers /\ InitDebates
    /\ \E interval \in {0, hoc_min_request_interval} : InitThrottleWith(interval)

SpecThrottle == InitService /\ [][NextThrottle]_vars

(* runs of the roles pipeline *)
NextRoles ==
    \/ \E active \in SUBSET RoleReps : RolesBegin(active)
    \/ \E result \in RoleResults : RoleItem(result)

SpecRoles == Init /\ [][NextRoles]_vars

(* runs of the party standings pipeline, and parties made by the members   *)
(* pipeline                                                                *)
NextStandings ==
    \/ \E party_totals \in PartyTotals : IngestPartyStandings(party_totals)
    \/ \E name \in CaucusNames : IngestMemberParty(name)

SpecStandings == Init /\ [][NextStandings]_vars

(* runs of the debates pipeline alone *)
NextDebates ==
    \/ DebatesBegin
    \/ \E fetched \in BOOLEAN : \E xml_text \in HansardPages :
           DebateFetch(fetched, IF fetched THEN xml_text ELSE NoHansard)
    \/ DebateRaises

InitScan == InitDb /\ InitOthers /\ InitDebatesWith(ScanSettings) /\ InitThrottle

SpecDebates == InitScan /\ [][NextDebates]_vars

-----------------------------------------------------------------------------
(* Properties of the key lifecycle *)

SubscriptionEventTypes ==
    {"customer.subscription.updated", "customer.subscription.deleted"}

(* C1: for one identity and one window, whatever the interleaving, every   *)
(* call increments the counter once (the k-th INCR on the key reads k),    *)
(* the first N calls are allowed and every later call is rejected with     *)
(* 429, N being the limit.                                                 *)
EveryCallOfTheWindowCounted ==
    \A task \in DOMAIN reqs :
        LET c == reqs[task]
        IN  c.at # NoneInt =>
                /\ c.count = c.rank
                /\ c.pc = "done" => (c.status = 429 <=> c.rank > c.limit)

(* C1, amended: the same for every call whose INCR runs before the expiry  *)
(* that the EXPIRE of the window's first call gave the counter.            *)
RateLimitCountsEveryCall ==
    \A task \in DOMAIN reqs :
        LET c == reqs[task]
        IN  (c.at # NoneInt /\ c.live) =>
                /\ c.count = c.rank
                /\ c.pc = "done" => (c.status = 429 <=> c.rank > c.limit)

CallBeyondLimitRejected ==
    \E a, b \in DOMAIN reqs :
        /\ reqs[a].pc = "done" /\ reqs[b].pc = "done"
        /\ reqs[a].identity = reqs[b].identity
        /\ reqs[a].window = reqs[b].window
        /\ reqs[a].live /\ reqs[b].live
        /\ reqs[a].status = 200
        /\ reqs[b].status = 429
        /\ reqs[b].rank = reqs[b].limit + 1
        /\ reqs[b].at > reqs[a].at

(* the rate-limit counters a step changed *)
TouchedCounters(s, s1) ==
    {key \in (DOMAIN s.data) \cup (DOMAIN s1.data) :
        /\ key[1] = "ratelimit"
        /\ \/ Lookup(s.data, key, 0) # Lookup(s1.data, key, 0)
           \/ Lookup(s.expiry, key, NoneInt) # Lookup(s1.expiry, key, NoneInt)}

(* the header names an existing active key of an active subscriber *)
NamesValidKey(keys, bill, header) ==
    LET K == get_by_hash(keys, hash_api_key(Strip(header).token))
    IN  /\ HeaderKind(header) = "key"
        /\ K # 0
        /\ keys[K].active
        /\ bill[keys[K].user_id].present
        /\ bill[keys[K].user_id].status \in {"active", "trialing"}

(* C2: a data request whose X-API-Key names an existing active key of an   *)
(* owner with Billing status active or trialing increments only the        *)
(* counter of identity key:{id} and is judged by the paid limit; a key     *)
(* request rejected with 401 or 403 increments no rate-limit counter; a    *)
(* request whose header is absent or blank increments only the counter of  *)
(* identity ip:{client_ip} and is judged by the free limit.                *)
TierFollowsTheKey ==
    [][\A h \in Headers, hs \in HandlerStatuses :
          (last'.arg = HeaderKind(h) /\ DataRequest(h, SomeIp, hs)) =>
              LET touched == TouchedCounters(store, store')
                  K == get_by_hash(api_keys, hash_api_key(Strip(h).token))
                  paid == RateLimitKey(KeyIdentity(K), WindowOf(now))
                  free == RateLimitKey(IpIdentity(SomeIp), WindowOf(now))
              IN  IF NamesValidKey(api_keys, billing, h)
                  THEN /\ touched = {paid}
                       /\ last'.status = 429 <=>
                              store'.data[paid] > paid_rate_limit_per_minute
                  ELSE IF HeaderKind(h) = "key"
                  THEN /\ touched = {}
                       /\ last'.status \in {401, 403}
                  ELSE /\ touched = {free}
                       /\ last'.status = 429 <=>
                              store'.data[free] > free_rate_limit_per_minute]_vars

RejectedKeyAfterCountedRequests ==
    /\ last.op = "data_request"
    /\ last.arg = "key"
    /\ last.status = 403
    /\ RateLimited(store) >= 2

PeriodStarts == {pp[1] : pp \in PeriodPairs}

UsageCount(K, P) == get_usage_count(store, K, P, now).value

(* C3: for every key K and billing period P, get_usage_count(K, P.start)   *)
(* equals the number of responses with status < 400 returned to requests   *)
(* authenticated with K while P was the owner's current billing period.    *)
UsageCountsSuccesses ==
    \A K \in DOMAIN api_keys, P \in PeriodStarts :
        UsageCount(K, P) = Lookup(served, <<K, P>>, 0)

(* C3, amended: the count never exceeds that number of responses, and      *)
(* equals it until the counter expires, usage_ttl seconds after the first  *)
(* counted response; responses >= 400 and requests without key never       *)
(* change it.                                                              *)
UsageCountsSuccessesUntilExpiry ==
    \A K \in DOMAIN api_keys, P \in PeriodStarts :
        LET kp == <<K, P>>
        IN  /\ UsageCount(K, P) <= Lookup(served, kp, 0)
            /\ (/\ kp \in DOMAIN first_use
                /\ now < first_use[kp].at
                           + usage_ttl(first_use[kp].period_end, first_use[kp].at)) =>
                   UsageCount(K, P) = served[kp]

FailedResponseLeftTheCount ==
    /\ last.op = "data_request"
    /\ last.arg = "key"
    /\ last.status = 404
    /\ \E kp \in DOMAIN served :
          /\ served[kp] >= 2
          /\ UsageCount(kp[1], kp[2]) = served[kp]

(* C11: when the counter store raises during increment_usage, the client   *)
(* still gets the response the handler produced, with its status.          *)
UsageFailureKeepsResponse ==
    resp # NoResponse => resp.returned = resp.produced

(* C4: after rotate_api_key returns successfully for a user, exactly one   *)
(* key of that user is active, it is the newly created key whose plaintext *)
(* was returned, and every key of the user that was active before the call *)
(* is inactive.                                                            *)
RotateLeavesOneActiveKey ==
    (last.op = "rotate_api_key" /\ last.status = 200) =>
        /\ ActiveKeysOf(api_keys, last.user) = {Len(api_keys)}
        /\ api_keys[Len(api_keys)].key_hash = hash_api_key(last.api_key)
        /\ \A k \in last.prev : k # Len(api_keys) /\ ~api_keys[k].active

RotateReplacedAnActiveKey ==
    /\ last.op = "rotate_api_key"
    /\ last.status = 200
    /\ last.prev # {}

(* C5: at every moment a user has at most one key with active = true,      *)
(* also while rotate requests of the user run concurrently.                *)
AtMostOneActiveKey ==
    \A u \in Users : Cardinality(ActiveKeysOf(api_keys, u)) <= 1

(* C6: after a customer.subscription.updated or deleted event with a       *)
(* status outside {active, trialing} for a customer with a Billing row,    *)
(* Billing.status is the event's status, the user's previously active key  *)
(* is inactive, and a data request presenting that key answers 403.        *)
InactiveSubscriptionRevokesKey ==
    (/\ last.op \in SubscriptionEventTypes
     /\ last.user # 0
     /\ ~is_subscription_active(last.arg)) =>
        /\ billing[last.user].status = last.arg
        /\ \A k \in last.prev :
              /\ ~api_keys[k].active
              /\ rate_limit_dependency(Here, HeaderOf(PlaintextOf(k), FALSE),
                                       SomeIp, now).status = 403

CanceledSubscriptionHadActiveKey ==
    /\ last.op \in SubscriptionEventTypes
    /\ last.arg = "canceled"
    /\ last.prev # {}

(* C7: no key ever changes from active = false to active = true.           *)
InactiveKeyStaysInactive ==
    [][\A k \in DOMAIN api_keys : ~api_keys[k].active => ~api_keys'[k].active]_vars

CheckoutAfterKeyWentInactive ==
    /\ last.op = "checkout.session.completed"
    /\ last.arg = "active"
    /\ \E k \in DOMAIN api_keys :
          /\ api_keys[k].user_id = last.user
          /\ ~api_keys[k].active
          /\ k < Len(api_keys)

(* C8: a key row comes into existence only with active = true: whenever an *)
(* operation inserts a row, the row is active.                             *)
KeysAreBornActive ==
    [][Len(api_keys') > Len(api_keys) => api_keys'[Len(api_keys')].active]_vars

(* C9: processing the same webhook event twice in a row leaves the same    *)
(* Billing rows and the same key rows as processing it once.               *)
ReplayedEventChangesNothing ==
    [][\A ev \in LifecycleEvents :
          Webhook(ev) =>
              LET again == handle_webhook_event(World(api_keys', billing', store'),
                                                ev, now').world
              IN  again.billing = billing' /\ again.api_keys = api_keys']_vars

(* C10: a stored plaintext is returned by at most one get_api_key call,    *)
(* and after a call that answered, the next call finds nothing to reveal   *)
(* until a new plaintext is stored.                                        *)
RevealedAtMostOnce ==
    /\ \A p \in DOMAIN revealed : revealed[p] <= 1
    /\ (last.op = "get_api_key" /\ last.status = 200) =>
          redis_get(store, RevealKey(last.user), now).value = NoneInt

SecondCallRevealsNothing ==
    /\ last.op = "get_api_key"
    /\ last.status = 200
    /\ last.api_key = NoneInt
    /\ \E p \in DOMAIN revealed : revealed[p] = 1

-----------------------------------------------------------------------------
(* C12: in the votes and the debates pipelines, when a parent row with the *)
(* same natural key exists and its stored source_hash equals the sha256 of *)
(* the payload just fetched, the step changes neither the parent table nor *)
(* the child table.                                                        *)
UnchangedHashTouchesNothing ==
    [][ /\ \A item \in HoCVoteItems :
              ( /\ vote_log'.vote_number = item.vote_number
                /\ item.detail.present /\ ~item.fetch_fails
                /\ votes[item.vote_number].id # 0
                /\ votes[item.vote_number].source_hash = sha256(item.detail)
                /\ VoteItem(item) )
              => votes' = votes /\ vote_members' = vote_members
        /\ \A page \in HansardPages :
              ( /\ drun.pc = "fetch"
                /\ LET key == <<drun.sitting, Lower(hoc_debate_languages[drun.lang])>>
                   IN  debates[key].id # 0 /\ debates[key].source_hash = sha256(page)
                /\ DebateFetch(TRUE, page) )
              => debates' = debates /\ debate_interventions' = debate_interventions
      ]_vars

(* a vote with members and a debate with interventions were both met again *)
(* with the same text                                                      *)
SameTextMetAgain ==
    /\ vote_log.outcome = "skipped"
    /\ \E r \in vote_members : r.vote_id = votes[vote_log.vote_number].id
    /\ debate_log.outcome = "skipped"
    /\ \E r \in debate_interventions :
          r.debate_id = debates[<<debate_log.sitting, debate_log.language>>].id
-----------------------------------------------------------------------------
(* the members the vote_members table holds for a vote number *)
MembersOf(vote_number) ==
    {r.member : r \in {x \in vote_members : x.vote_id = votes[vote_number].id}}

(* C13: after ingest_votes stored a vote whose detail page was fetched and *)
(* hashed (its hash differing from the stored one), the VoteMember rows of *)
(* that vote are exactly the members decoded from the page, with no row    *)
(* left from an earlier list, an empty decoded list included.              *)
VoteMembersAreTheDecodedList ==
    (vote_log.outcome = "stored" /\ vote_log.hashed)
        => MembersOf(vote_log.vote_number) = vote_log.decoded
-----------------------------------------------------------------------------
(* the number of rows a table holds for a period *)
PeriodRows(tbl, file) ==
    BagCardinality([r \in {x \in DOMAIN tbl :
                               /\ x.period_start = file.period_start
                               /\ x.period_end = file.period_end} |-> tbl[r]])

BothDatesRead(file) == file.period_start # NoneInt /\ file.period_end # NoneInt

-----------------------------------------------------------------------------
(* C15: for each repository upsert called sequentially in one session, a   *)
(* call with the arguments of the call before it leaves the table as that  *)
(* call left it, and after any sequence of upserts the table holds at most *)
(* one row per natural key.                                                *)
UpsertIsIdempotentAndKeepsKeysUnique ==
    [][ /\ \A repo \in Repositories : \A key \in NaturalKeys(repo), kwargs \in 1..NumRevs :
              ( /\ urepo = repo
                /\ upsert_log.key = key /\ upsert_log.kwargs = kwargs
                /\ Upsert(repo, key, kwargs) )
              => urows' = urows
        /\ \A r1, r2 \in urows' : r1.key = r2.key => r1 = r2
      ]_vars

(* an upsert was repeated with the same arguments while the table held a   *)
(* row for another key as well                                             *)
SameUpsertCalledTwice ==
    /\ upsert_log.again
    /\ Cardinality(urows) = NumKeys
    /\ \E r \in urows : r.key = upsert_log.key /\ r.fields = upsert_log.kwargs
-----------------------------------------------------------------------------
(* the position of a pipeline in the declared order *)
OrderOf(P) == CHOOSE i \in DOMAIN Pipelines : Pipelines[i] = P

(* C16: when an enabled pipeline P raises during ingest, the returned      *)
(* stats hold an entry for P, every enabled pipeline after P is run, and   *)
(* ingest returns instead of raising.                                      *)
PipelineFailureIsContained ==
    \A P \in ingest_run.raising \cap ingest_run.ran :
        /\ ~ingest_run.raised
        /\ P \in ingest_run.stats
        /\ \A Q \in ingest_run.enabled : OrderOf(Q) > OrderOf(P) => Q \in ingest_run.ran
-----------------------------------------------------------------------------
(* C17: lookup_representative answers 422 for every combination of inputs  *)
(* other than postal_code alone or lat and lng together without            *)
(* postal_code; with both coordinates (of a point on the globe) and no     *)
(* postal_code it answers 404 when no riding contains the point or the     *)
(* one riding that does has no active representative.                      *)
LookupRejectsBadCombinations ==
    [][ \A pc \in PostalCodes, lat \in Lats \cup {NoCoord}, lng \in Lngs \cup {NoCoord} :
          ( /\ lookup_log'.postal_code = pc
            /\ lookup_log'.lat = lat /\ lookup_log'.lng = lng
            /\ LookupRepresentative(pc, lat, lng) ) =>
            LET postal == pc.given
                has_lat == lat # NoCoord
                has_lng == lng # NoCoord
                here == {r \in 1..NumRidings : <<lat, lng>> \in riding_geom[r]}
                active == {i \in 1..NumReps : /\ representatives[i].is_active
                                               /\ representatives[i].riding_id \in here}
            IN  /\ ~((postal /\ ~has_lat /\ ~has_lng) \/ (~postal /\ has_lat /\ has_lng))
                      => lookup_log'.status = 422
                /\ ( /\ ~postal /\ <<lat, lng>> \in Points
                     /\ (here = {} \/ (Cardinality(here) = 1 /\ active = {})) )
                      => lookup_log'.status = 404
      ]_vars

(* a point inside one riding that has a representative, but no active one, *)
(* was looked up                                                           *)
LookupFoundNoActiveRepresentative ==
    /\ lookup_log.status = 404
    /\ Cardinality(lookup_log.ridings) = 1
    /\ \E i \in 1..NumReps : representatives[i].riding_id \in lookup_log.ridings
-----------------------------------------------------------------------------
(* C18 as stated: get_redis returns the in-process fallback only when no   *)
(* redis_url is configured and the environment is "development" or "test"; *)
(* with no redis_url in any other environment it raises and returns no     *)
(* client; with a redis_url it returns the remote client.                  *)
FallbackOnlyInDevelopmentOrTest ==
    store_log.op = "get_redis" =>
        /\ redis_client = "InMemoryRedis"
              => (settings.redis_url = "" /\ settings.environment \in {"development", "test"})
        /\ (settings.redis_url = "" /\ settings.environment \notin {"development", "test"})
              => (store_log.raised /\ redis_client = "none")
        /\ settings.redis_url # "" => (~store_log.raised /\ redis_client = "Redis")

(* the environment values, among those of the model, that lower-case to    *)
(* "development", "dev", "test" or "testing", the empty one being read as  *)
(* "development"                                                           *)
FallbackEnvironments == {"", "development", "dev", "test", "testing", "TEST"}

(* C18 amended: the same with the environment lower-cased, an empty one    *)
(* read as "development", and "dev" and "testing" allowed as well.         *)
FallbackOnlyInDevelopmentLikeEnvironments ==
    store_log.op = "get_redis" =>
        /\ redis_client = "InMemoryRedis"
              => (settings.redis_url = "" /\ settings.environment \in FallbackEnvironments)
        /\ (settings.redis_url = "" /\ settings.environment \notin FallbackEnvironments)
              => (store_log.raised /\ redis_client = "none")
        /\ settings.redis_url # "" => (~store_log.raised /\ redis_client = "Redis")

(* get_redis raised in production with no redis_url *)
GetRedisRaisedInProduction ==
    /\ store_log.op = "get_redis" /\ store_log.raised
    /\ settings.environment = "production"

-----------------------------------------------------------------------------
(* C19: in the in-process counter store, INCR on a key that is missing or  *)
(* whose expiry has passed returns 1, INCR on a key that holds a value and *)
(* has not expired returns that value plus 1, and a GET of a key whose     *)
(* expiry has passed returns nil and leaves no entry for the key.          *)
FallbackStoreCountsAndExpires ==
    [][ \A key \in StoreKeys :
          LET passed == key \in DOMAIN store.expiry /\ store.expiry[key] <= now
              held == key \in DOMAIN store.data /\ ~passed
          IN  /\ (store_log'.key = key /\ store_log'.op = "incr" /\ StoreIncr(key))
                    => store_log'.value = IF held THEN store.data[key] + 1 ELSE 1
              /\ (store_log'.key = key /\ store_log'.op = "get" /\ StoreGet(key) /\ passed)
                    => /\ store_log'.value = NoneInt
                       /\ key \notin DOMAIN store'.data
                       /\ key \notin DOMAIN store'.expiry
      ]_vars

(* a key was read after its expiry time had passed *)
ExpiredCounterReadAsNil ==
    /\ store_log.op = "get" /\ store_log.expired
    /\ store_log.value = NoneInt
    /\ store_log.key \notin DOMAIN store.data
-----------------------------------------------------------------------------
(* the callers whose request is out, and those who hold a permit *)
InFlight == {t \in Fetchers : fetch[t] = "request"}
PermitHolders == {t \in Fetchers : fetch[t] \in {"throttle", "sleep", "request"}}

(* C20: at every moment at most max_concurrency requests are in flight     *)
(* inside _fetch_text, whatever the number of callers, and every permit    *)
(* taken is either held by a caller inside the block or back in the        *)
(* semaphore, after requests that returned and after requests that raised. *)
InFlightRequestsAreBounded ==
    /\ Cardinality(InFlight) <= hoc_max_concurrency
    /\ semaphore + Cardinality(PermitHolders) = hoc_max_concurrency

(* after a request that raised, max_concurrency requests are in flight     *)
(* again while another caller waits for a permit                           *)
FullConcurrencyAfterAFailure ==
    /\ fetch_raised
    /\ Cardinality(InFlight) = hoc_max_concurrency
    /\ \E t \in Fetchers : fetch[t] = "acquire"

(* the callers of _throttle that wait for the lock while its holder       *)
(* sleeps for another host                                                 *)
HeldUpByOtherHost ==
    {t \in Throttlers : /\ thr[t].pc = "lock"
                        /\ throttle_lock # 0
                        /\ thr[throttle_lock].host # thr[t].host}

(* the times recorded for every host are min_interval apart *)
StartsAreSpaced ==
    \A h \in Hosts : \A i \in 1..(Len(request_starts[h]) - 1) :
        request_starts[h][i + 1] - request_starts[h][i] >= min_interval

(* C21: the start times recorded for two successive requests to the same   *)
(* host are at least min_request_interval apart, and the throttle wait is  *)
(* taken under a lock of that host, so no request to another host waits    *)
(* for it.                                                                 *)
ThrottleIsPerHost ==
    /\ StartsAreSpaced
    /\ HeldUpByOtherHost = {}

(* the number of FALSE entries at the end of a sequence of flags *)
RECURSIVE TrailingMisses(_)
TrailingMisses(found) ==
    IF found = <<>> \/ found[Len(found)] THEN 0
    ELSE 1 + TrailingMisses(SubSeq(found, 1, Len(found) - 1))

(* C22: during a debates scan the missing counter is the number of         *)
(* consecutive sittings, ending at the last one gone through, of which no  *)
(* language was fetched (so a sitting with a fetched language resets it),  *)
(* and once it reaches max_missing the scan is over and no later sitting   *)
(* is fetched.                                                             *)
MissingCountsConsecutiveSittings ==
    /\ scan_log.missing = TrailingMisses(scan_log.found)
    /\ drun.pc = "fetch" =>
          /\ drun.missing = TrailingMisses(scan_log.found)
          /\ drun.missing < hoc_settings.max_missing
          /\ drun.sitting = scan_log.start + Len(scan_log.found)
    /\ scan_log.missing >= hoc_settings.max_missing =>
          /\ drun.pc = "idle"
          /\ \A i \in 1..Len(scan_log.fetched) :
                 scan_log.fetched[i] < scan_log.start + Len(scan_log.found)

(* a scan has stopped after max_missing sittings in a row gave nothing,    *)
(* with sittings of its range left                                         *)
ScanStoppedBeforeItsEnd ==
    /\ drun.pc = "idle"
    /\ scan_log.found = <<TRUE, FALSE, FALSE>> \/ scan_log.found = <<FALSE, FALSE>>
    /\ scan_log.missing = hoc_settings.max_missing
    /\ scan_log.start + Len(scan_log.found) - 1 < scan_log.end

(* the sittings of which a debate is stored *)
StoredSittings == {k[1] : k \in {x \in DOMAIN debates : debates[x].id # 0}}

(* where a scan starts, the order of its fetches, and what it leaves alone *)
ScanStartsAfterStored ==
    /\ scan_log # NoScan =>
          scan_log.start = IF scan_log.max_stored = 0 THEN 1 ELSE scan_log.max_stored + 1
    /\ \A i \in 1..Len(scan_log.fetched) :
          /\ scan_log.fetched[i] \in scan_log.start..scan_log.end
          /\ \A j \in 1..(i - 1) : scan_log.fetched[j] <= scan_log.fetched[i]
    /\ drun.pc = "fetch" =>
          /\ drun.sitting > scan_log.max_stored
          /\ \A s \in StoredSittings : s <= drun.sitting
    /\ \A s \in StoredSittings : s <= scan_log.end

(* a step changes no debate and no intervention of a sitting at or below   *)
(* the max stored sitting the scan has read                                *)
StoredSittingsUntouched ==
    /\ \A k \in DOMAIN debates :
          debates'[k] # debates[k] => (drun.pc = "fetch" /\ k[1] > scan_log.max_stored)
    /\ \A k \in DOMAIN debates :
          (debates[k].id # 0 /\ k[1] <= scan_log'.max_stored) =>
              {r \in debate_interventions' : r.debate_id = debates[k].id}
                  = {r \in debate_interventions : r.debate_id = debates[k].id}

(* C23 as stated: a scan starts at 1 on a cold start and after the max     *)
(* stored sitting otherwise, goes through the sittings in increasing       *)
(* order, ends at max_sitting at the latest on a cold start and at         *)
(* max_sitting + lookahead at the latest on an incremental run, and        *)
(* leaves the sittings up to the max stored one alone.                     *)
ScanEndsByMaxSittingPlusLookahead ==
    /\ [](/\ ScanStartsAfterStored
          /\ scan_log.max_stored = 0 => scan_log.end <= hoc_settings.max_sitting
          /\ scan_log.max_stored # 0 =>
                scan_log.end <= hoc_settings.max_sitting + hoc_settings.lookahead)
    /\ [][StoredSittingsUntouched]_vars

(* C23, amended: the cap of an incremental run is the max stored sitting   *)
(* plus lookahead, whatever max_sitting is; the cap of a cold start is     *)
(* max_sitting.                                                            *)
ScanEndsByStoredMaxPlusLookahead ==
    /\ [](/\ ScanStartsAfterStored
          /\ scan_log.max_stored = 0 =>
                scan_log.end \in {0, hoc_settings.max_sitting}
          /\ scan_log.max_stored # 0 =>
                scan_log.end = scan_log.max_stored + hoc_settings.lookahead)
    /\ [][StoredSittingsUntouched]_vars

(* an incremental run has fetched and stored a sitting beyond max_sitting  *)
(* + lookahead                                                             *)
IncrementalRunWentBeyondMaxSitting ==
    /\ scan_log.max_stored > hoc_settings.max_sitting
    /\ scan_log.fetched # <<>>
    /\ \E s \in StoredSittings :
          s > hoc_settings.max_sitting + hoc_settings.lookahead

(* in the given tables, the interventions of every stored debate are those *)
(* of the text whose hash the debate carries, numbered 1..N in its order    *)
InterventionsOfStoredText(tables) ==
    \A k \in DOMAIN tables.debates :
        LET debate == tables.debates[k]
            text == debate.source_hash.sha256
            rows == {r \in tables.debate_interventions : r.debate_id = debate.id}
        IN  debate.id # 0 =>
              /\ {<<r.sequence, r.speaker_name>> : r \in rows}
                    = {<<idx, text.interventions[idx]>> :
                          idx \in 1..Len(text.interventions)}
              /\ Cardinality(rows) = Len(text.interventions)

(* C24: after any sequence of debates ingests the interventions of every   *)
(* stored debate carry the sequence numbers 1..N, without gap or           *)
(* duplicate, in the document order of the text whose hash the debate      *)
(* stores; no row of an earlier version of the document remains.           *)
InterventionsAreTheStoredDocument ==
    /\ InterventionsOfStoredText(persisted)
    /\ InterventionsOfStoredText(DebateTables(debates, debate_interventions))

(* a committed debate whose two interventions were replaced by the one of  *)
(* a later version of the document                                         *)
LaterVersionReplacedInterventions ==
    /\ drun.pc = "idle"
    /\ \E k \in DOMAIN persisted.debates :
          /\ persisted.debates[k].id # 0
          /\ Len(persisted.debates[k].source_hash.sha256.interventions) = 1
          /\ \E r \in persisted.debate_interventions :
                r.debate_id = persisted.debates[k].id /\ r.id = NumInterventions + 1

(* C25: what a pipeline writes inside its session scope is committed when  *)
(* the body returns and rolled back when an exception leaves the scope:    *)
(* after the exception the committed tables are what they were before the  *)
(* scope, and nothing is committed while the scope is open.                *)
ScopeCommitsOnReturnAndRollsBackOnRaise ==
    [][ /\ (drun.pc = "fetch" /\ drun'.pc = "idle" /\ scan_log'.raised) =>
              /\ persisted' = persisted
              /\ DebateTables(debates', debate_interventions') = persisted
        /\ (drun.pc = "fetch" /\ drun'.pc = "idle" /\ ~scan_log'.raised) =>
              persisted' = DebateTables(debates', debate_interventions')
        /\ drun'.pc = "fetch" => persisted' = persisted
      ]_vars

(* a cold-start scan stored a sitting and then raised: no debate is stored *)
RaisedAfterStoringInTheScope ==
    /\ drun.pc = "idle"
    /\ scan_log.raised
    /\ scan_log.max_stored = 0
    /\ \E i \in 1..Len(scan_log.found) : scan_log.found[i]
    /\ int_seq > 0
    /\ \A k \in DOMAIN persisted.debates : persisted.debates[k].id = 0
    /\ debate_interventions = {}

(* the roles the table holds for a representative *)
RolesOf(rows, representative_id) ==
    {r.role_name : r \in {x \in rows : x.representative_id = representative_id}}

(* C26: in the roles pipeline, a representative whose XML is fetched and   *)
(* decoded gets exactly the decoded roles, the earlier ones being deleted; *)
(* a representative whose fetch or decode fails adds 1 to errors and keeps *)
(* the stored roles, and the representatives after it are still gone       *)
(* through; the roles of every other representative are left alone.        *)
RolesReplacedOrKept ==
    [][ \A result \in RoleResults :
          ( /\ role_log'.failed = ~result.ok
            /\ RoleItem(result) )
          => LET rep == Head(rrun.todo)
             IN  /\ \A o \in RoleReps \ {rep} :
                       RolesOf(representative_roles', o) = RolesOf(representative_roles, o)
                 /\ result.ok =>
                       /\ RolesOf(representative_roles', rep) = result.roles
                       /\ rrun'.stats.errors = rrun.stats.errors
                 /\ ~result.ok =>
                       /\ representative_roles' = representative_roles
                       /\ rrun'.stats.errors = rrun.stats.errors + 1
                 /\ Tail(rrun.todo) # <<>> =>
                       rrun'.pc = "reps" /\ rrun'.todo = Tail(rrun.todo)
      ]_vars

(* the first representative failed and kept its roles, and the second one  *)
(* had its roles replaced by the decoded ones                              *)
RolesReplacedAfterAFailure ==
    /\ rrun.pc = "idle"
    /\ rrun.stats.errors = 1
    /\ rrun.stats.representatives = NumRoleReps
    /\ role_log.representative_id = NumRoleReps /\ ~role_log.failed
    /\ RolesOf(representative_roles, 1) = {"Caucus Member"}
    /\ RolesOf(representative_roles, NumRoleReps) = {"Committee Member"}

(* C27 as stated: the party standings pipeline inserts no Party row; the   *)
(* party_id of a standing is the id of the Party that existed with that    *)
(* name, or null when none existed, and null for "Vacant".                 *)
StandingsNeverInsertParties ==
    [][ \A party_totals \in PartyTotals :
          ( /\ standings_log'.party_totals = party_totals
            /\ IngestPartyStandings(party_totals) )
          => /\ parties' = parties
             /\ \A n \in DOMAIN party_totals :
                   party_standings'[n].party_id =
                       IF n = "Vacant" THEN NoneInt ELSE get_by_name(parties, n)
      ]_vars

(* the caucus names of a run that are not vacant seats and have no Party *)
NamesWithoutParty(party_totals) ==
    {n \in DOMAIN party_totals :
        caucus_lower(n) # "vacant" /\ get_by_name(parties, n) = NoneInt}

(* C27, amended: the pipeline inserts one Party row for every caucus name  *)
(* that is not "vacant" in any casing and has no Party, and no other; the  *)
(* party_id of such a standing is the id of the Party of that name,        *)
(* existing or just inserted, and null for vacant seats.                   *)
StandingsInsertMissingParties ==
    [][ \A party_totals \in PartyTotals :
          ( /\ standings_log'.party_totals = party_totals
            /\ IngestPartyStandings(party_totals) )
          => /\ parties \subseteq parties'
             /\ {p.name : p \in parties' \ parties} = NamesWithoutParty(party_totals)
             /\ Cardinality(parties' \ parties)
                   = Cardinality(NamesWithoutParty(party_totals))
             /\ \A n \in DOMAIN party_totals :
                   /\ party_standings'[n].present
                   /\ party_standings'[n].seat_count = party_totals[n]
                   /\ IF caucus_lower(n) = "vacant"
                      THEN party_standings'[n].party_id = NoneInt
                      ELSE /\ party_standings'[n].party_id # NoneInt
                           /\ party_standings'[n].party_id = get_by_name(parties', n)
      ]_vars

(* a run has linked one standing to a Party it inserted and another to a   *)
(* Party that existed, and left the vacant seats without a Party           *)
StandingLinkedToInsertedParty ==
    /\ standings_log.ran
    /\ DOMAIN standings_log.party_totals = {"Liberal", "Conservative", "Vacant"}
    /\ \E p \in parties \ standings_log.before :
          party_standings[p.name].party_id = p.id
    /\ \E p \in standings_log.before : party_standings[p.name].party_id = p.id
    /\ party_standings["Vacant"].present
    /\ party_standings["Vacant"].party_id = NoneInt

(* C28: after any sequence of runs of the votes pipeline, every stored     *)
(* vote that carries the hash of a detail page has as its VoteMember rows  *)
(* exactly the members decoded from that page: no vote is left with the    *)
(* hash of a page and a stale or partial member list, which later runs     *)
(* would skip as unchanged.                                                *)
StoredVotesCarryTheMembersOfTheirHash ==
    \A n \in VoteNumbers :
        (votes[n].id # 0 /\ votes[n].source_hash # NoHash)
            => MembersOf(n) = parse_vote_detail(votes[n].source_hash.sha256)

(* C29: a plaintext that get_api_key returns is the key of the user's      *)
(* active ApiKey (its prefix is the key_prefix of the response), also when *)
(* rotate_api_key ran between the checkout webhook that stored the reveal  *)
(* and the call.                                                           *)
RevealedKeyIsTheActiveKey ==
    (last.op = "get_api_key" /\ last.api_key # NoneInt) =>
        \E k \in ActiveKeysOf(api_keys, last.user) :
            /\ api_keys[k].key_hash = hash_api_key(last.api_key)
            /\ api_keys[k].key_prefix = KeyPrefix(last.api_key)

(* C30: a customer.subscription.updated event with an active or trialing  *)
(* status that finds the user's key deactivated reactivates no key and     *)
(* creates none: the subscription is active and no ApiKey of the user is;  *)
(* and a data request that presents an inactive key is answered 403,       *)
(* whatever the subscription is, so the old key is refused until, and      *)
(* after, rotate_api_key or a checkout makes a new key.                    *)
ResubscriptionLeavesTheKeyInactive ==
    [][ /\ \A ev \in AccessEvents :
              ( /\ ev.type = "customer.subscription.updated"
                /\ is_subscription_active(ev.status)
                /\ last'.op = ev.type
                /\ billing[Subscriber].present
                /\ ActiveKeysOf(api_keys, Subscriber) = {}
                /\ Webhook(ev) )
              => /\ api_keys' = api_keys
                 /\ ActiveKeysOf(api_keys', Subscriber) = {}
                 /\ is_subscription_active(billing'[Subscriber].status)
        /\ \A h \in Headers, hs \in HandlerStatuses :
              ( /\ last'.op = "data_request"
                /\ HeaderKind(h) = "key"
                /\ LET K == get_by_hash(api_keys, hash_api_key(Strip(h).token))
                   IN  K # 0 /\ ~api_keys[K].active
                /\ DataRequest(h, SomeIp, hs) )
              => last'.status = 403
      ]_vars

(* the old key was refused with 403 while the subscription was active      *)
(* again and the user had no active key                                    *)
OldKeyRefusedAfterResubscription ==
    /\ last.op = "data_request"
    /\ last.arg = "key"
    /\ last.status = 403
    /\ billing[Subscriber].present
    /\ is_subscription_active(billing[Subscriber].status)
    /\ Len(api_keys) = 1
    /\ ActiveKeysOf(api_keys, Subscriber) = {}
====
